---- MODULE Spec2Model ----
(***************************************************************************)
(* A model of the spur-ai-live-chat backend: the message coordinator       *)
(* (ChatService.processMessage / getConversationHistory), the completion   *)
(* step (LLMService.generateResponse) and the rate-limit layers.           *)
(*                                                                         *)
(* Strings.  A JavaScript string is a sequence of runs [c, n]: the chunk c *)
(* repeated n times.  A chunk of whitespace is one of Whitespace; every    *)
(* other chunk holds no whitespace.  A canonical UUID string is the single *)
(* run Uuid(k), the k-th identifier ever generated (prisma's uuid()        *)
(* default): a generated identifier differs from every identifier that     *)
(* exists or that a client has supplied.  Error messages are sequences of  *)
(* words, and String.prototype.includes is containment of a word sequence. *)
(***************************************************************************)
EXTENDS Integers, Sequences, FiniteSets, TLC

VARIABLES
    conversations,  \* prisma.conversation: the set of stored Conversation ids
    messages,       \* prisma.message: the stored Messages, in createdAt order
    req,            \* one record per request: its position and its locals
    histLen,        \* per conversation, the size of the last history read
    rows,           \* History Shaper input: a findMany result
    shaped,         \* History Shaper output: the turns built from rows
    now,            \* Date.now(), in milliseconds
    hits,           \* per rate-limit layer, its store: key -> totalHits, resetTime
    admitted,       \* per layer and key, the requests admitted since the window began
    last,           \* the last request that arrived and what the layers did with it
    traffic         \* what the clients have done so far

vars == <<conversations, messages, req, histLen, rows, shaped,
          now, hits, admitted, last, traffic>>

storeVars == <<conversations, messages, req, histLen>>
shaperVars == <<rows, shaped>>
limiterVars == <<now, hits, admitted, last, traffic>>

----------------------------------------------------------------------------
(* Bounds of the model *)

\* Number of requests (send or history calls) of one behaviour of Spec.
MaxReqs == 2

\* Largest findMany result the History Shaper is applied to, beyond MAX_HISTORY.
MaxExtraRows == 2

\* Steps of time in a behaviour of the rate-limit layers
MaxPasses == 2

\* Requests of the second origin
MaxOthers == 1

\* Requests an origin goes on sending after a layer is full
MaxOverCap == 1

----------------------------------------------------------------------------
(* Strings and JavaScript values *)

Whitespace == {" ", "\t", "\n"}

Run(c, n) == [c |-> c, n |-> n]

\* String.prototype.length
RECURSIVE Length(_)
Length(s) ==
    IF s = <<>> THEN 0 ELSE Len(Head(s).c) * Head(s).n + Length(Tail(s))

RECURSIVE TrimStart(_)
TrimStart(s) ==
    IF s = <<>> THEN s
    ELSE IF Head(s).c \in Whitespace THEN TrimStart(Tail(s))
    ELSE s

RECURSIVE TrimEnd(_)
TrimEnd(s) ==
    IF s = <<>> THEN s
    ELSE IF s[Len(s)].c \in Whitespace THEN TrimEnd(SubSeq(s, 1, Len(s) - 1))
    ELSE s

\* String.prototype.trim
Trim(s) == TrimEnd(TrimStart(s))

Undefined == [type |-> "undefined", val |-> <<>>]
Number42 == [type |-> "number", val |-> <<>>]
Str(s) == [type |-> "string", val |-> s]
False == [type |-> "boolean", val |-> <<>>]

\* JavaScript truthiness of the values above (the number is not zero).
Truthy(v) ==
    CASE v.type = "undefined" -> FALSE
      [] v.type = "boolean" -> FALSE
      [] v.type = "string" -> v.val # <<>>
      [] OTHER -> TRUE

\* String.prototype.includes on word sequences.
Includes(msg, needle) ==
    \E i \in 1..(Len(msg) - Len(needle) + 1) :
        SubSeq(msg, i, i + Len(needle) - 1) = needle

Uuid(k) == <<Run("uuid", k)>>

\* A well-formed UUID that names no Conversation (never generated).
StaleUuid == Uuid(0)

\* A string that is not a UUID.
MalformedId == <<Run("not-a-uuid", 1)>>

----------------------------------------------------------------------------
(* utils/validation.ts *)

isValidUUID(str) == Len(str) = 1 /\ str[1].c = "uuid"

NoError == <<>>
ErrSessionRequired == <<"Session", "ID", "is", "required">>
ErrSessionFormat == <<"Invalid", "session", "ID", "format">>

\* The error validateSessionId throws, NoError when it returns.
validateSessionId(sessionId) ==
    IF ~Truthy(sessionId) \/ sessionId.type # "string" THEN ErrSessionRequired
    ELSE IF ~isValidUUID(sessionId.val) THEN ErrSessionFormat
    ELSE NoError

----------------------------------------------------------------------------
(* services/llm.service.ts *)

MAX_HISTORY == 10

SYSTEM_PROMPT == <<Run("You-are-a-helpful-and-friendly-customer-support-agent", 1)>>

FallbackUnable ==
    <<Run("Sorry,", 1), Run(" ", 1), Run("I-was-unable-to-generate-a-response.", 1)>>
FallbackUnavailable ==
    <<Run("Our-support-agent-is-temporarily-unavailable.", 1)>>

\* Mutant of SliceLast: slice(0, n), the first n elements.
SliceFirst(s, n) ==
    IF Len(s) <= n THEN s ELSE SubSeq(s, 1, n)

\* Array.prototype.slice(-n)
SliceLast(s, n) ==
    IF Len(s) <= n THEN s ELSE SubSeq(s, Len(s) - n + 1, Len(s))

\* Mutant of RecentHistory: the history is not limited.
RecentHistoryUnlimited(conversationHistory) == conversationHistory

\* conversationHistory.slice(-this.MAX_HISTORY)
RecentHistory(conversationHistory) == SliceLast(conversationHistory, MAX_HISTORY)

\* The role of one turn.
TurnRole(sender) == IF sender = "user" THEN "user" ELSE "assistant"

\* The messages array generateResponse passes to the Completion Provider.
BuildMessages(conversationHistory) ==
    LET recentHistory == RecentHistory(conversationHistory)
    IN  <<[role |-> "system", content |-> SYSTEM_PROMPT]>> \o
        [i \in 1..Len(recentHistory) |->
            [role |-> TurnRole(recentHistory[i].sender),
             content |-> recentHistory[i].text]]

\* What client.chat.completions.create can do: resolve with a response
\* (choices: the content of each choice's message, Undefined when missing)
\* or reject (an APIError with a status, a timeout, a network error).
Response(choices) == [kind |-> "response", status |-> 200, choices |-> choices]
Rejection(kind, status) == [kind |-> kind, status |-> status, choices |-> <<>>]

ProviderOutcomes ==
    { Response(<<Str(<<Run("Returns-accepted-within-14-days", 1)>>)>>),
      Response(<<Str(<<Run(" ", 1), Run("Hello!", 1), Run("\n", 1)>>)>>),
      Response(<<>>),
      Response(<<Undefined>>),
      Response(<<Str(<<>>)>>),
      Response(<<Str(<<Run(" ", 2)>>)>>),
      Rejection("APIError", 401),
      Rejection("APIError", 429),
      Rejection("APIError", 500),
      Rejection("APIError", 503),
      Rejection("timeout", 0),
      Rejection("network", 0) }

\* The outcomes of the provider call in Spec: a generated text and a failure.
ConcurrentOutcomes ==
    { Response(<<Str(<<Run(" ", 1), Run("Hello!", 1), Run("\n", 1)>>)>>),
      Rejection("APIError", 429) }

\* The string generateResponse returns for an outcome of the provider call.
ReplyFor(outcome) ==
    IF outcome.kind = "response"
    THEN IF outcome.choices = <<>> \/ ~Truthy(outcome.choices[1])
         THEN FallbackUnable
         ELSE Trim(outcome.choices[1].val)
    ELSE FallbackUnavailable

----------------------------------------------------------------------------
(* services/chat.service.ts *)

MAX_MESSAGE_LENGTH == 5000

ErrMessageRequired ==
    <<"Message", "is", "required", "and", "must", "be", "a", "string">>
ErrMessageEmpty == <<"Message", "cannot", "be", "empty">>
ErrMessageTooLong ==
    <<"Message", "exceeds", "maximum", "length", "of", "5000", "characters">>
ErrDatabase == <<"Database", "error.", "Please", "try", "again", "later.">>
ErrNotFound == <<"Conversation", "not", "found">>
ErrHistory == <<"Failed", "to", "fetch", "conversation", "history">>

\* Mutant of TrimmedMessage: the message is used as received.
UntrimmedMessage(message) == message.val

\* const trimmedMessage = input.message.trim()
TrimmedMessage(message) == Trim(message.val)

\* Mutant of ValidateMessage: every message passes.
ValidateNothing(message) == NoError

\* Mutant of ValidateMessage: the length limit is on the message as sent.
ValidateMessageUntrimmed(message) ==
    IF ~Truthy(message) \/ message.type # "string" THEN ErrMessageRequired
    ELSE IF Length(TrimmedMessage(message)) = 0 THEN ErrMessageEmpty
    ELSE IF Length(message.val) > MAX_MESSAGE_LENGTH THEN ErrMessageTooLong
    ELSE NoError

\* The error the input validation of processMessage throws, NoError when
\* the message passes.
ValidateMessage(message) ==
    IF ~Truthy(message) \/ message.type # "string" THEN ErrMessageRequired
    ELSE IF Length(TrimmedMessage(message)) = 0 THEN ErrMessageEmpty
    ELSE IF Length(TrimmedMessage(message)) > MAX_MESSAGE_LENGTH THEN ErrMessageTooLong
    ELSE NoError

\* The catch block of processMessage: the error it throws for a caught one.
ProcessMessageCatch(error) ==
    IF \/ Includes(error, <<"required">>)
       \/ Includes(error, <<"cannot", "be", "empty">>)
       \/ Includes(error, <<"exceeds", "maximum">>)
       \/ Includes(error, <<"API", "key">>)
       \/ Includes(error, <<"Rate", "limit">>)
    THEN error
    ELSE ErrDatabase

\* Mutant of HistoryCatch: every caught error is wrapped.
HistoryCatchWrapsAll(error) == ErrHistory

\* The catch block of getConversationHistory.
HistoryCatch(error) ==
    IF Includes(error, <<"not", "found">>) THEN error ELSE ErrHistory

\* The defensive sender conversion of both operations.
TypedSender(sender) == IF sender = "user" \/ sender = "ai" THEN sender ELSE "ai"

\* prisma.message.findMany({where: {conversationId}, orderBy: {createdAt: 'asc'}})
FindManyIn(table, conversationId) ==
    SelectSeq(table, LAMBDA m : m.conversationId = conversationId)

\* Mutant of FindMany: the rows without the newest.
FindManyStale(conversationId) ==
    LET found == FindManyIn(messages, conversationId)
    IN  SubSeq(found, 1, Len(found) - 1)

FindMany(conversationId) == FindManyIn(messages, conversationId)

\* history.map(...) of processMessage: the typed history handed to the LLM service.
TypedHistory(found) ==
    [i \in 1..Len(found) |->
        [sender |-> TypedSender(found[i].sender), text |-> found[i].text]]

\* Mutant of TypedMessages: the rows the LLM service would be handed.
TypedMessagesRecent(found) ==
    [i \in 1..Len(SliceLast(found, MAX_HISTORY)) |->
        [id |-> SliceLast(found, MAX_HISTORY)[i].id,
         sender |-> TypedSender(SliceLast(found, MAX_HISTORY)[i].sender),
         text |-> SliceLast(found, MAX_HISTORY)[i].text,
         createdAt |-> SliceLast(found, MAX_HISTORY)[i].createdAt]]

\* messages.map(...) of getConversationHistory.
TypedMessages(found) ==
    [i \in 1..Len(found) |->
        [id |-> found[i].id, sender |-> TypedSender(found[i].sender),
         text |-> found[i].text, createdAt |-> found[i].createdAt]]

\* The identifier prisma gives a new Conversation.
NewConversationId == Uuid(Cardinality(conversations) + 1)

\* A new Message row: a fresh id, and createdAt after every stored Message.
NewMessage(conversationId, sender, text) ==
    [id |-> <<Run("uuid-message", Len(messages) + 1)>>,
     conversationId |-> conversationId, sender |-> sender, text |-> text,
     createdAt |-> Len(messages) + 1]

\* What a storage operation can reject with.
StorageErrors ==
    { <<"Can't", "reach", "database", "server">> }

----------------------------------------------------------------------------
(* Requests *)

Reqs == 1..MaxReqs

\* A request that has not been made yet.  status, reply, outSessionId,
\* outMessages and error are what the caller receives; created, userMsgId,
\* sentIds and storageFailed record what the request did.
IdleReq ==
    [pc |-> "idle", op |-> "none", message |-> Undefined, sessionId |-> Undefined,
     trimmedMessage |-> <<>>, conversationId |-> <<>>, turns |-> <<>>,
     aiReply |-> <<>>, status |-> "pending", reply |-> <<>>,
     outSessionId |-> <<>>, outMessages |-> <<>>, error |-> NoError,
     created |-> {}, userMsgId |-> <<>>, sentIds |-> <<>>,
     storageFailed |-> FALSE, elapsed |-> 0, timedOut |-> FALSE]

\* The request ends by throwing error to its caller.
Throws(r, error, byStorage) ==
    req' = [req EXCEPT ![r] = [@ EXCEPT !.pc = "done", !.status = "error",
                                        !.error = error,
                                        !.storageFailed = byStorage,
                                        !.turns = <<>>, !.sentIds = <<>>,
                                        !.aiReply = <<>>]]

\* The messages a caller can send: missing, not a string, empty, only
\* whitespace, and two valid ones.
AllMessages ==
    { Undefined, Number42, Str(<<>>), Str(<<Run(" ", 3)>>),
      Str(<<Run("What-is-your-return-policy?", 1)>>),
      Str(<<Run(" ", 2), Run("Hi", 1), Run(" ", 1), Run("there", 1), Run("\n", 1)>>),
      Str(<<Run("a", MAX_MESSAGE_LENGTH + 1)>>) }

\* The messages of the concurrent callers of Spec: an invalid and a valid one.
SendMessages ==
    { Str(<<Run(" ", 3)>>),
      Str(<<Run(" ", 2), Run("Hi", 1), Run(" ", 1), Run("there", 1), Run("\n", 1)>>) }

\* The session ids a caller can supply: none, the id of a Conversation it
\* has seen, a well-formed id of no Conversation, a malformed one.
SessionIds ==
    {Undefined, Str(StaleUuid), Str(MalformedId)} \cup {Str(c) : c \in conversations}

\* Mutant of FindUniqueConversation: no Conversation is ever found.
FindUniqueNeverFound(id) == FALSE

\* Mutant of FindUniqueConversation: the supplied id is taken as found.
FindUniqueAlwaysFound(id) == TRUE

\* prisma.conversation.findUnique({where: {id}}): whether a row is found.
FindUniqueConversation(id) == id \in conversations

\* processMessage, from the call to its first await.
ProcessMessage(r, message, sessionId) ==
    /\ req[r].pc = "idle"
    /\ LET called == [req[r] EXCEPT !.op = "send", !.message = message,
                                    !.sessionId = sessionId]
           invalid == ValidateMessage(message)
           badId == validateSessionId(sessionId)
       IN  IF invalid # NoError
           THEN req' = [req EXCEPT ![r] = [called EXCEPT !.pc = "done",
                            !.status = "error", !.error = invalid]]
           ELSE IF Truthy(sessionId)
           THEN IF badId # NoError
                THEN req' = [req EXCEPT ![r] = [called EXCEPT !.pc = "done",
                            !.status = "error",
                            !.error = ProcessMessageCatch(badId),
                            !.trimmedMessage = TrimmedMessage(message)]]
                ELSE req' = [req EXCEPT ![r] = [called EXCEPT
                            !.pc = "findUnique",
                            !.trimmedMessage = TrimmedMessage(message)]]
           ELSE req' = [req EXCEPT ![r] = [called EXCEPT
                            !.pc = "createConversation",
                            !.trimmedMessage = TrimmedMessage(message)]]
    /\ UNCHANGED <<conversations, messages, histLen, shaperVars, limiterVars>>

\* await prisma.conversation.findUnique resolves.
FindUnique(r) ==
    /\ req[r].pc = "findUnique"
    /\ IF FindUniqueConversation(req[r].sessionId.val)
       THEN req' = [req EXCEPT ![r] = [@ EXCEPT !.pc = "createUserMessage",
                        !.conversationId = req[r].sessionId.val]]
       ELSE req' = [req EXCEPT ![r] = [@ EXCEPT !.pc = "createConversation"]]
    /\ UNCHANGED <<conversations, messages, histLen, shaperVars, limiterVars>>

\* await prisma.conversation.create({}) resolves.
\* Mutant of CreateConversation: the id is used, the record is not stored.
CreateConversationLost(r) ==
    /\ req[r].pc = "createConversation"
    /\ req' = [req EXCEPT ![r] = [@ EXCEPT !.pc = "createUserMessage",
                    !.conversationId = NewConversationId,
                    !.created = @ \cup {NewConversationId}]]
    /\ UNCHANGED <<conversations, messages, histLen, shaperVars, limiterVars>>

CreateConversation(r) ==
    /\ req[r].pc = "createConversation"
    /\ conversations' = conversations \cup {NewConversationId}
    /\ req' = [req EXCEPT ![r] = [@ EXCEPT !.pc = "createUserMessage",
                    !.conversationId = NewConversationId,
                    !.created = @ \cup {NewConversationId}]]
    /\ UNCHANGED <<messages, histLen, shaperVars, limiterVars>>

\* Mutant of MessageCreate: the newest stored Message is overwritten.
MessageOverwriteLast(data) ==
    IF messages = <<>> THEN <<data>>
    ELSE [messages EXCEPT ![Len(messages)] = data]

\* The Message table after prisma.message.create({data}).
MessageCreate(data) == Append(messages, data)

\* await prisma.message.create (sender 'user') resolves.
CreateUserMessage(r) ==
    /\ req[r].pc = "createUserMessage"
    /\ LET data == NewMessage(req[r].conversationId, "user", req[r].trimmedMessage)
       IN  /\ messages' = MessageCreate(data)
           /\ req' = [req EXCEPT ![r] = [@ EXCEPT !.pc = "findMany",
                           !.userMsgId = data.id]]
    /\ UNCHANGED <<conversations, histLen, shaperVars, limiterVars>>

\* await prisma.message.findMany resolves; generateResponse builds the turns
\* and calls the Completion Provider.
FindManyHistory(r) ==
    /\ req[r].pc = "findMany"
    /\ LET found == FindMany(req[r].conversationId)
           recent == RecentHistory(found)
       IN  req' = [req EXCEPT ![r] = [@ EXCEPT !.pc = "llm",
                       !.turns = BuildMessages(TypedHistory(found)),
                       !.sentIds = [i \in 1..Len(recent) |-> recent[i].id]]]
    /\ UNCHANGED <<conversations, messages, histLen, shaperVars, limiterVars>>

\* await client.chat.completions.create settles; generateResponse returns.
Completion(r, outcome) ==
    /\ req[r].pc = "llm"
    /\ req' = [req EXCEPT ![r] = [@ EXCEPT !.pc = "createAiMessage",
                    !.aiReply = ReplyFor(outcome),
                    !.turns = <<>>, !.sentIds = <<>>]]
    /\ UNCHANGED <<conversations, messages, histLen, shaperVars, limiterVars>>

\* await prisma.message.create (sender 'ai') resolves; processMessage returns.
CreateAiMessage(r) ==
    /\ req[r].pc = "createAiMessage"
    /\ messages' = MessageCreate(NewMessage(req[r].conversationId, "ai", req[r].aiReply))
    /\ req' = [req EXCEPT ![r] = [@ EXCEPT !.pc = "done", !.status = "ok",
                    !.reply = req[r].aiReply,
                    !.outSessionId = req[r].conversationId,
                    !.aiReply = <<>>]]
    /\ UNCHANGED <<conversations, histLen, shaperVars, limiterVars>>

SendAwaits ==
    {"findUnique", "createConversation", "createUserMessage", "findMany",
     "createAiMessage"}

\* Mutant of SendStorageFails: the catch block deletes the user Message of
\* the call.
SendStorageFailsRollback(r, error) ==
    /\ req[r].pc \in SendAwaits
    /\ Throws(r, ProcessMessageCatch(error), TRUE)
    /\ messages' = SelectSeq(messages, LAMBDA m : m.id # req[r].userMsgId)
    /\ UNCHANGED <<conversations, histLen, shaperVars, limiterVars>>

\* A storage operation of processMessage rejects: the catch block.
SendStorageFails(r, error) ==
    /\ req[r].pc \in SendAwaits
    /\ Throws(r, ProcessMessageCatch(error), TRUE)
    /\ UNCHANGED <<conversations, messages, histLen, shaperVars, limiterVars>>

\* getConversationHistory, from the call to its first await.
GetConversationHistory(r, sessionId) ==
    /\ req[r].pc = "idle"
    /\ LET called == [req[r] EXCEPT !.op = "history", !.sessionId = sessionId]
           badId == validateSessionId(sessionId)
       IN  IF badId # NoError
           THEN req' = [req EXCEPT ![r] = [called EXCEPT !.pc = "done",
                            !.status = "error", !.error = badId]]
           ELSE req' = [req EXCEPT ![r] = [called EXCEPT !.pc = "hFindUnique"]]
    /\ UNCHANGED <<conversations, messages, histLen, shaperVars, limiterVars>>

\* await prisma.conversation.findUnique resolves in getConversationHistory.
HistoryFindUnique(r) ==
    /\ req[r].pc = "hFindUnique"
    /\ IF FindUniqueConversation(req[r].sessionId.val)
       THEN req' = [req EXCEPT ![r] = [@ EXCEPT !.pc = "hFindMany"]]
       ELSE Throws(r, HistoryCatch(ErrNotFound), FALSE)
    /\ UNCHANGED <<conversations, messages, histLen, shaperVars, limiterVars>>

\* await prisma.message.findMany resolves; getConversationHistory returns.
HistoryFindMany(r) ==
    /\ req[r].pc = "hFindMany"
    /\ LET sid == req[r].sessionId.val
           typedMessages == TypedMessages(FindMany(sid))
       IN  /\ req' = [req EXCEPT ![r] = [@ EXCEPT !.pc = "done", !.status = "ok",
                           !.outMessages = typedMessages, !.outSessionId = sid]]
           /\ histLen' = [c \in DOMAIN histLen \cup {sid} |->
                             IF c = sid THEN Len(typedMessages) ELSE histLen[c]]
    /\ UNCHANGED <<conversations, messages, shaperVars, limiterVars>>

\* A storage operation of getConversationHistory rejects: the catch block.
HistoryStorageFails(r, error) ==
    /\ req[r].pc \in {"hFindUnique", "hFindMany"}
    /\ Throws(r, HistoryCatch(error), TRUE)
    /\ UNCHANGED <<conversations, messages, histLen, shaperVars, limiterVars>>

----------------------------------------------------------------------------
(* middleware/rateLimiter.ts: the four express-rate-limit layers.  A layer *)
(* keeps, per key, the number of requests of the key's current window      *)
(* (totalHits) and the time at which that window ends (resetTime).  A      *)
(* request that a layer does not skip is counted and then rejected when    *)
(* its count exceeds max; a rejected request stays counted and reaches no  *)
(* later layer.  The store is in memory, so that one request passes all    *)
(* its layers before the next request is looked at.                        *)

apiLimiter ==
    [name |-> "api", windowMs |-> 15 * 60 * 1000, max |-> 100,
     skipSuccessfulRequests |-> FALSE, skipFailedRequests |-> FALSE]

chatLimiter ==
    [name |-> "chat", windowMs |-> 15 * 60 * 1000, max |-> 50,
     skipSuccessfulRequests |-> FALSE, skipFailedRequests |-> FALSE]

\* Mutant of sessionLimiter: the per-session layer with the per-IP cap.
sessionLimiterChatMax ==
    [name |-> "session", windowMs |-> 15 * 60 * 1000, max |-> 50,
     skipSuccessfulRequests |-> FALSE, skipFailedRequests |-> FALSE]

sessionLimiter ==
    [name |-> "session", windowMs |-> 15 * 60 * 1000, max |-> 20,
     skipSuccessfulRequests |-> FALSE, skipFailedRequests |-> FALSE]

\* Mutant of dailyLimiter: failed requests are not counted.
dailyLimiterSkipFailed ==
    [name |-> "daily", windowMs |-> 24 * 60 * 60 * 1000, max |-> 200,
     skipSuccessfulRequests |-> FALSE, skipFailedRequests |-> TRUE]

dailyLimiter ==
    [name |-> "daily", windowMs |-> 24 * 60 * 60 * 1000, max |-> 200,
     skipSuccessfulRequests |-> FALSE, skipFailedRequests |-> FALSE]

LimiterNames == {"api", "daily", "chat", "session"}

\* req.ip of the n-th origin
Ip(n) == <<Run("ip", n)>>

\* An HTTP request: its origin, method and path, and the message and
\* sessionId fields of its JSON body (undefined when the body has none).
HttpRequest(ip, method, path, message, sessionId) ==
    [ip |-> ip, method |-> method, path |-> path,
     message |-> message, sessionId |-> sessionId]

\* keyGenerator: req.ip by default; sessionLimiter: sessionId || req.ip
keyGenerator(limiter, request) ==
    IF limiter.name = "session" /\ Truthy(request.sessionId)
    THEN request.sessionId.val
    ELSE request.ip

\* skip: sessionLimiter skips GET requests; the other layers skip nothing
\* Mutant of skip: the per-session layer has no skip option.
skipNothing(limiter, request) == FALSE

skip(limiter, request) ==
    limiter.name = "session" /\ request.method = "GET"

\* app.use(apiLimiter), before every route
AppLimiters == <<apiLimiter>>

\* Mutant of RouterLimiters: the per-session layer is mounted before the
\* per-IP layer.
RouterLimitersSessionFirst == <<dailyLimiter, sessionLimiter, chatLimiter>>

\* router.use(dailyLimiter); router.use(chatLimiter); router.use(sessionLimiter)
RouterLimiters == <<dailyLimiter, chatLimiter, sessionLimiter>>

\* The layers on the way of a request, in the order in which it meets them.
LimitersOf(request) ==
    IF request.path = "/health" THEN AppLimiters
    ELSE AppLimiters \o RouterLimiters

\* The store's entry of a key at time t: a new window when it has none or
\* when its window has ended.
Client(store, key, windowMs, t) ==
    IF key \in DOMAIN store /\ store[key].resetTime > t
    THEN store[key]
    ELSE [totalHits |-> 0, resetTime |-> t + windowMs]

\* store.increment(key)
Increment(store, key, windowMs, t) ==
    (key :> [Client(store, key, windowMs, t) EXCEPT !.totalHits = @ + 1]) @@ store

\* store.decrement(key)
Decrement(store, key) ==
    IF key \in DOMAIN store /\ store[key].totalHits > 0
    THEN [store EXCEPT ![key].totalHits = @ - 1]
    ELSE store

\* The response of a request is finished with statusCode: a layer that
\* counted the request takes its hit back when its options skip failed
\* (statusCode >= 400) or successful requests.
RECURSIVE OnFinish(_, _, _, _, _)
OnFinish(limiters, request, counted, statusCode, stores) ==
    IF limiters = <<>> THEN stores
    ELSE
        LET limiter == Head(limiters)
            name == limiter.name
            refund == /\ name \in counted
                      /\ \/ limiter.skipFailedRequests /\ statusCode >= 400
                         \/ limiter.skipSuccessfulRequests /\ statusCode < 400
        IN  OnFinish(Tail(limiters), request, counted, statusCode,
                IF refund
                THEN [stores EXCEPT ![name] =
                          Decrement(@, keyGenerator(limiter, request))]
                ELSE stores)

\* The windows as the layers are documented, for the count of admitted
\* requests: 24 hours for the daily layer, 15 minutes for the others.
DocumentedWindow(name) ==
    IF name = "daily" THEN 24 * 60 * 60 * 1000 ELSE 15 * 60 * 1000

\* The requests a layer admitted for a key since the key's window began
\* (none when the documented window is over), and when it began.
AdmittedSoFar(counts, key, name, t) ==
    IF key \in DOMAIN counts /\ t < counts[key].since + DocumentedWindow(name)
    THEN counts[key]
    ELSE [count |-> 0, since |-> t]

\* Mutant of RunLimiters: a layer that rejects passes the request on.
RECURSIVE RunLimitersAll(_, _, _, _)
RunLimitersAll(limiters, request, t, acc) ==
    IF limiters = <<>> THEN acc
    ELSE
        LET limiter == Head(limiters)
            name == limiter.name
            key == keyGenerator(limiter, request)
            store == Increment(acc.hits[name], key, limiter.windowMs, t)
            rejected == store[key].totalHits > limiter.max
            before == AdmittedSoFar(acc.admitted[name], key, name, t)
            after == IF rejected THEN before
                     ELSE [before EXCEPT !.count = @ + 1]
            counted == [acc EXCEPT !.hits[name] = store,
                                   !.admitted[name] = (key :> after) @@ @,
                                   !.before = (name :> before.count) @@ @]
        IN  IF skip(limiter, request)
            THEN RunLimitersAll(Tail(limiters), request, t, acc)
            ELSE RunLimitersAll(Tail(limiters), request, t,
                     IF rejected /\ acc.rejectedBy = "none"
                     THEN [counted EXCEPT !.rejectedBy = name]
                     ELSE counted)

\* A request passes the layers in order.  acc holds the stores, the counts
\* of admitted requests, the layer that rejected the request ("none" so
\* far) and, per layer that counted it, the count admitted before it.
RECURSIVE RunLimiters(_, _, _, _)
RunLimiters(limiters, request, t, acc) ==
    IF limiters = <<>> THEN acc
    ELSE
        LET limiter == Head(limiters)
            name == limiter.name
            key == keyGenerator(limiter, request)
            store == Increment(acc.hits[name], key, limiter.windowMs, t)
            rejected == store[key].totalHits > limiter.max
            before == AdmittedSoFar(acc.admitted[name], key, name, t)
            after == IF rejected THEN before
                     ELSE [before EXCEPT !.count = @ + 1]
            counted == [acc EXCEPT !.hits[name] = store,
                                   !.admitted[name] = (key :> after) @@ @,
                                   !.before = (name :> before.count) @@ @]
        IN  IF skip(limiter, request)
            THEN RunLimiters(Tail(limiters), request, t, acc)
            ELSE IF rejected
            THEN [counted EXCEPT !.rejectedBy = name]
            ELSE RunLimiters(Tail(limiters), request, t, counted)

NoRequest == [request |-> Undefined, rejectedBy |-> "none", before |-> <<>>]

LimiterIdle ==
    /\ now = 0
    /\ hits = [name \in LimiterNames |-> <<>>]
    /\ admitted = [name \in LimiterNames |-> <<>>]
    /\ last = NoRequest
    /\ traffic = [passes |-> 0, others |-> 0, sent |-> 0, fresh |-> 0,
                  firstAt |-> 0, finished |-> 0, profile |-> "none"]

\* A request arrives and passes its layers: 429 from the layer that rejects
\* it, the route's handler when no layer does.
Arrive(request) ==
    LET out == RunLimiters(LimitersOf(request), request, now,
                   [hits |-> hits, admitted |-> admitted,
                    rejectedBy |-> "none", before |-> <<>>])
    IN  /\ hits' = out.hits
        /\ admitted' = out.admitted
        /\ last' = [request |-> request, rejectedBy |-> out.rejectedBy,
                    before |-> out.before]
        /\ UNCHANGED <<now, storeVars, shaperVars>>

\* The entries of a store whose window has not ended at time t.
Unexpired(store, t) ==
    [key \in {k \in DOMAIN store : store[k].resetTime > t} |-> store[key]]

\* d milliseconds pass.  The windows that have ended are dropped from the
\* stores (increment would start a new window for their keys), and the
\* counts of admitted requests whose documented window is over with them.
AdvanceTime(d) ==
    /\ now' = now + d
    /\ hits' = [name \in LimiterNames |-> Unexpired(hits[name], now')]
    /\ admitted' =
         [name \in LimiterNames |->
            [key \in {k \in DOMAIN admitted[name] :
                        now' < admitted[name][k].since + DocumentedWindow(name)}
                |-> admitted[name][key]]]
    /\ last' = NoRequest
    /\ traffic' = [traffic EXCEPT !.passes = @ + 1]
    /\ UNCHANGED <<storeVars, shaperVars>>

----------------------------------------------------------------------------
(* Spec: send and history calls, interleaved at their suspension points,   *)
(* on a Record Store that holds the Conversation of one earlier exchange.  *)

ShaperIdle == rows = <<>> /\ shaped = <<>>

\* The Message table after one exchange on the first Conversation.
OneExchange ==
    << [id |-> <<Run("uuid-message", 1)>>, conversationId |-> Uuid(1),
        sender |-> "user", text |-> <<Run("Hi", 1)>>, createdAt |-> 1],
       [id |-> <<Run("uuid-message", 2)>>, conversationId |-> Uuid(1),
        sender |-> "ai", text |-> <<Run("Hello!", 1)>>, createdAt |-> 2] >>

Init ==
    /\ conversations = {Uuid(1)}
    /\ messages = OneExchange
    /\ req = [r \in Reqs |-> IdleReq]
    /\ histLen = <<>>
    /\ ShaperIdle
    /\ LimiterIdle

\* Requests are numbered in the order in which they are made.
InOrder(r) == IF r = 1 THEN TRUE ELSE req[r - 1].pc # "idle"

Next ==
    \E r \in Reqs :
        \/ \E m \in SendMessages, s \in SessionIds :
               InOrder(r) /\ ProcessMessage(r, m, s)
        \/ FindUnique(r)
        \/ CreateConversation(r)
        \/ CreateUserMessage(r)
        \/ FindManyHistory(r)
        \/ \E o \in ConcurrentOutcomes : Completion(r, o)
        \/ CreateAiMessage(r)
        \/ \E e \in StorageErrors : SendStorageFails(r, e)
        \/ \E s \in SessionIds : InOrder(r) /\ GetConversationHistory(r, s)
        \/ HistoryFindUnique(r)
        \/ HistoryFindMany(r)
        \/ \E e \in StorageErrors : HistoryStorageFails(r, e)

Spec == Init /\ [][Next]_vars

----------------------------------------------------------------------------
(* SpecSerial: the same operations called one after the other on a Record  *)
(* Store that starts empty, with every message and every outcome of the    *)
(* provider call.                                                          *)

InitSerial ==
    /\ conversations = {}
    /\ messages = <<>>
    /\ req = [r \in Reqs |-> IdleReq]
    /\ histLen = <<>>
    /\ ShaperIdle
    /\ LimiterIdle

\* A request is made when the one before it has returned.
InSeries(r) == IF r = 1 THEN TRUE ELSE req[r - 1].pc = "done"

NextSerial ==
    \E r \in Reqs :
        \/ \E m \in AllMessages, s \in SessionIds :
               InSeries(r) /\ ProcessMessage(r, m, s)
        \/ FindUnique(r)
        \/ CreateConversation(r)
        \/ CreateUserMessage(r)
        \/ FindManyHistory(r)
        \/ \E o \in ProviderOutcomes : Completion(r, o)
        \/ CreateAiMessage(r)
        \/ \E e \in StorageErrors : SendStorageFails(r, e)
        \/ \E s \in SessionIds : InSeries(r) /\ GetConversationHistory(r, s)
        \/ HistoryFindUnique(r)
        \/ HistoryFindMany(r)
        \/ \E e \in StorageErrors : HistoryStorageFails(r, e)

SpecSerial == InitSerial /\ [][NextSerial]_vars

----------------------------------------------------------------------------
(* SpecShaper: the History Shaper (the typed history of processMessage and *)
(* the turns of generateResponse) applied to findMany results of 0 to      *)
(* MAX_HISTORY + MaxExtraRows rows.  The sender column is a string: rows   *)
(* alternate user and ai from either one, and one row may hold another     *)
(* value.                                                                  *)

MaxRows == MAX_HISTORY + MaxExtraRows

OtherSenders == {"system", "assistant"}

\* n rows that alternate from sender first; row odd (0: none) has sender other.
RowsOf(n, first, odd, other) ==
    [i \in 1..n |->
        [sender |-> IF i = odd THEN other
                    ELSE IF (i % 2 = 1) = (first = "user") THEN "user" ELSE "ai",
         text |-> <<Run("m", i)>>]]

InitShaper ==
    /\ conversations = {}
    /\ messages = <<>>
    /\ req = [r \in Reqs |-> IdleReq]
    /\ histLen = <<>>
    /\ shaped = <<>>
    /\ LimiterIdle
    /\ \E n \in 0..MaxRows, first \in {"user", "ai"} :
        \E odd \in 0..n, other \in OtherSenders :
            rows = RowsOf(n, first, odd, other)

\* processMessage maps the rows it read and generateResponse builds the turns.
Shape ==
    /\ shaped = <<>>
    /\ shaped' = BuildMessages(TypedHistory(rows))
    /\ UNCHANGED <<storeVars, rows, limiterVars>>

NextShaper == Shape

SpecShaper == InitShaper /\ [][NextShaper]_vars

----------------------------------------------------------------------------
(* SpecRace: a burst of MAX_HISTORY + 1 send calls in flight on one        *)
(* Conversation, the Conversation of one earlier exchange.  The calls are  *)
(* identical and proceed in lock step: a call takes its next step only     *)
(* when no call is behind it, and the Message table serves the creates of  *)
(* one step in the order of the calls.                                     *)

RaceReqs == 1..(MAX_HISTORY + 1)

RaceMessage == Str(<<Run("Where-is-my-order?", 1)>>)

InitRace ==
    /\ conversations = {Uuid(1)}
    /\ messages = OneExchange
    /\ req = [r \in RaceReqs |-> IdleReq]
    /\ histLen = <<>>
    /\ ShaperIdle
    /\ LimiterIdle

Rank(pc) ==
    CASE pc = "idle" -> 0
      [] pc = "findUnique" -> 1
      [] pc = "createUserMessage" -> 2
      [] pc = "findMany" -> 3
      [] pc = "llm" -> 4
      [] pc = "createAiMessage" -> 5
      [] OTHER -> 6

\* No call is behind call r.
InStep(r) == \A q \in RaceReqs : Rank(req[q].pc) >= Rank(req[r].pc)

\* Call r - 1 has taken the step call r is about to take.
Ahead(r) == IF r = 1 THEN TRUE ELSE Rank(req[r - 1].pc) > Rank(req[r].pc)

NextRace ==
    \E r \in RaceReqs :
        \/ InStep(r) /\ ProcessMessage(r, RaceMessage, Str(Uuid(1)))
        \/ InStep(r) /\ FindUnique(r)
        \/ InStep(r) /\ Ahead(r) /\ CreateUserMessage(r)
        \/ InStep(r) /\ FindManyHistory(r)
        \/ InStep(r) /\ Completion(r, Rejection("APIError", 429))
        \/ InStep(r) /\ Ahead(r) /\ CreateAiMessage(r)

SpecRace == InitRace /\ [][NextRace]_vars

----------------------------------------------------------------------------
(* SpecLimits: the four layers over time.  One client keeps sending valid  *)
(* messages on the first Conversation, other requests come from a second   *)
(* origin, and time passes in steps of 5 minutes, 15 minutes or 24 hours.  *)

Pauses == {5 * 60 * 1000, 15 * 60 * 1000, 24 * 60 * 60 * 1000}

ValidMessage ==
    Str(<<Run(" ", 2), Run("Hi", 1), Run(" ", 1), Run("there", 1), Run("\n", 1)>>)

InvalidMessage == Str(<<Run(" ", 3)>>)

\* The requests of the second origin: a history read, and sends without
\* sessionId and on the first Conversation.
OtherRequests ==
    { HttpRequest(Ip(2), "GET", "/chat/history/:sessionId", Undefined, Undefined),
      HttpRequest(Ip(2), "POST", "/chat/message", InvalidMessage, Undefined),
      HttpRequest(Ip(2), "POST", "/chat/message", ValidMessage, Str(Uuid(1))) }

InitLimits ==
    /\ conversations = {Uuid(1)}
    /\ messages = OneExchange
    /\ req = [r \in Reqs |-> IdleReq]
    /\ histLen = <<>>
    /\ ShaperIdle
    /\ LimiterIdle

\* The first origin sends, until the general layer has rejected it
\* MaxOverCap times in its window.
ClientSend ==
    /\ Client(hits["api"], Ip(1), apiLimiter.windowMs, now).totalHits
         < apiLimiter.max + MaxOverCap
    /\ Arrive(HttpRequest(Ip(1), "POST", "/chat/message", ValidMessage, Str(Uuid(1))))
    /\ UNCHANGED traffic

OtherRequest(request) ==
    /\ traffic.others < MaxOthers
    /\ Arrive(request)
    /\ traffic' = [traffic EXCEPT !.others = @ + 1]

Pass(d) ==
    /\ traffic.passes < MaxPasses
    /\ AdvanceTime(d)

NextLimits ==
    \/ ClientSend
    \/ \E request \in OtherRequests : OtherRequest(request)
    \/ \E d \in Pauses : Pass(d)

SpecLimits == InitLimits /\ [][NextLimits]_vars

----------------------------------------------------------------------------
(* SpecBurst: one origin sends to a server that had no traffic before.     *)
(* Every send carries a valid or an invalid message.  The burst keeps to   *)
(* one profile: every send on the same sessionId, every send with a        *)
(* sessionId no send before it carried, every send without sessionId, or   *)
(* any mix of the three.  The sends of a burst arrive within 15 minutes of *)
(* the first: time passes in steps of 5 minutes during a burst that is not *)
(* mixed, and a mixed burst arrives at one instant.                        *)

Profiles == {"same", "different", "none", "mixed"}

BurstMessages == {ValidMessage, InvalidMessage}

\* The sessionId fields the next send of the burst may carry.
BurstSessionIds ==
    LET same == Str(Uuid(1))
        different == Str(Uuid(traffic.fresh + 2))
    IN  CASE traffic.profile = "same" -> {same}
          [] traffic.profile = "different" -> {different}
          [] traffic.profile = "none" -> {Undefined}
          [] OTHER -> {same, different, Undefined}

InitBurst ==
    /\ conversations = {Uuid(1)}
    /\ messages = OneExchange
    /\ req = [r \in Reqs |-> IdleReq]
    /\ histLen = <<>>
    /\ ShaperIdle
    /\ now = 0
    /\ hits = [name \in LimiterNames |-> <<>>]
    /\ admitted = [name \in LimiterNames |-> <<>>]
    /\ last = NoRequest
    /\ \E profile \in Profiles :
        traffic = [passes |-> 0, others |-> 0, sent |-> 0, fresh |-> 0,
                   firstAt |-> 0, finished |-> 0, profile |-> profile]

\* The origin sends, until it has sent MaxOverCap requests more than the
\* per-IP layer admits.
BurstSend(message, sessionId) ==
    /\ traffic.sent < chatLimiter.max + MaxOverCap
    /\ Arrive(HttpRequest(Ip(1), "POST", "/chat/message", message, sessionId))
    /\ traffic' = [traffic EXCEPT
                       !.sent = @ + 1,
                       !.fresh = IF sessionId \in {Undefined, Str(Uuid(1))} THEN @ ELSE @ + 1,
                       !.firstAt = IF traffic.sent = 0 THEN now ELSE @]

\* 5 minutes pass between two sends, within 15 minutes of the first send.
BurstPause ==
    /\ traffic.profile # "mixed"
    /\ traffic.sent > 0
    /\ now + 5 * 60 * 1000 < traffic.firstAt + 15 * 60 * 1000
    /\ AdvanceTime(5 * 60 * 1000)

NextBurst ==
    \/ \E message \in BurstMessages, sessionId \in BurstSessionIds :
           BurstSend(message, sessionId)
    \/ BurstPause

SpecBurst == InitBurst /\ [][NextBurst]_vars

----------------------------------------------------------------------------
(* routes/chat.routes.ts and index.ts: the route handlers *)

\* router.post('/message'), up to the first await: validateSessionId when
\* the body has a truthy sessionId, then chatService.processMessage.
PostMessage(r, message, sessionId) ==
    IF Truthy(sessionId) /\ validateSessionId(sessionId) # NoError
    THEN /\ req[r].pc = "idle"
         /\ req' = [req EXCEPT ![r] = [@ EXCEPT !.op = "send", !.pc = "done",
                        !.message = message, !.sessionId = sessionId,
                        !.status = "error",
                        !.error = validateSessionId(sessionId)]]
         /\ UNCHANGED <<conversations, messages, histLen, shaperVars, limiterVars>>
    ELSE ProcessMessage(r, message, sessionId)

\* router.get('/history/:sessionId'), up to the first await: validateSessionId
\* on the path parameter, then chatService.getConversationHistory.
GetHistory(r, sessionId) ==
    IF validateSessionId(sessionId) # NoError
    THEN /\ req[r].pc = "idle"
         /\ req' = [req EXCEPT ![r] = [@ EXCEPT !.op = "history", !.pc = "done",
                        !.sessionId = sessionId, !.status = "error",
                        !.error = validateSessionId(sessionId)]]
         /\ UNCHANGED <<conversations, messages, histLen, shaperVars, limiterVars>>
    ELSE GetConversationHistory(r, sessionId)

\* app.get('/health'): res.json({status: 'ok'})
GetHealth(r) ==
    /\ req[r].pc = "idle"
    /\ req' = [req EXCEPT ![r] = [@ EXCEPT !.op = "health", !.pc = "done",
                   !.status = "ok"]]
    /\ UNCHANGED <<conversations, messages, histLen, shaperVars, limiterVars>>

\* Mutant of HandlerRuns: the route is mounted before the limiters.
HandlerRunsAlways(outcome) == TRUE

\* A limiter that rejects a request answers 429 and does not call next():
\* the route's handler runs when no layer on the way rejected the request.
HandlerRuns(outcome) == outcome.rejectedBy = "none"

----------------------------------------------------------------------------
(* SpecInputs: processMessage is called, one call after the other, with    *)
(* messages at the limits of the input validation.                         *)

\* Messages of no text, of 1, 5000 and 5001 characters between the
\* surrounding whitespace, and of more than 5000 characters of whitespace.
BoundaryMessages ==
    AllMessages \cup
    { Str(<<Run("a", 1)>>),
      Str(<<Run("a", MAX_MESSAGE_LENGTH)>>),
      Str(<<Run("a", MAX_MESSAGE_LENGTH + 1)>>),
      Str(<<Run(" ", 3), Run("a", MAX_MESSAGE_LENGTH), Run("\n", 2)>>),
      Str(<<Run(" ", 1), Run("a", MAX_MESSAGE_LENGTH + 1)>>),
      Str(<<Run("a", 2500), Run(" ", 1), Run("b", 2500)>>),
      Str(<<Run(" ", MAX_MESSAGE_LENGTH + 1)>>) }

\* The calls are without sessionId or on a sessionId of no Conversation.
BoundarySessionIds == {Undefined, Str(StaleUuid)}

NextInputs ==
    \E r \in Reqs :
        \/ \E m \in BoundaryMessages, s \in BoundarySessionIds :
               InSeries(r) /\ ProcessMessage(r, m, s)
        \/ FindUnique(r)
        \/ CreateConversation(r)
        \/ CreateUserMessage(r)
        \/ FindManyHistory(r)
        \/ \E o \in ConcurrentOutcomes : Completion(r, o)
        \/ CreateAiMessage(r)
        \/ \E e \in StorageErrors : SendStorageFails(r, e)

SpecInputs == InitSerial /\ [][NextInputs]_vars

----------------------------------------------------------------------------
(* utils/validation.ts and the routes: what the HTTP client is answered *)

\* String.prototype.toLowerCase, on the words of the error messages.
LowerWord(w) ==
    CASE w = "Message" -> "message"
      [] w = "Session" -> "session"
      [] w = "ID" -> "id"
      [] w = "Invalid" -> "invalid"
      [] w = "Database" -> "database"
      [] w = "Please" -> "please"
      [] w = "Conversation" -> "conversation"
      [] w = "Failed" -> "failed"
      [] w = "Can't" -> "can't"
      [] w = "An" -> "an"
      [] w = "API" -> "api"
      [] w = "Rate" -> "rate"
      [] w = "Service" -> "service"
      [] OTHER -> w

ToLowerCase(msg) == [i \in 1..Len(msg) |-> LowerWord(msg[i])]

ErrServiceConfig == <<"Service", "configuration", "error">>
ErrRateLimit ==
    <<"Rate", "limit", "exceeded.", "Please", "try", "again", "later.">>
ErrUnexpected ==
    <<"An", "unexpected", "error", "occurred.", "Please", "try", "again", "later.">>

\* Mutant of sanitizeErrorMessage: the message of the error in production too.
sanitizeNothing(error, isProduction) == error

\* sanitizeErrorMessage, for an Error with the message error.
sanitizeErrorMessage(error, isProduction) ==
    LET message == ToLowerCase(error) IN
    IF ~isProduction THEN error
    ELSE IF Includes(message, <<"not", "found">>)
            \/ Includes(message, <<"conversation", "not", "found">>)
    THEN ErrNotFound
    ELSE IF Includes(message, <<"required">>)
            \/ Includes(message, <<"cannot", "be", "empty">>)
    THEN error
    ELSE IF Includes(message, <<"api", "key">>) \/ Includes(message, <<"invalid">>)
    THEN ErrServiceConfig
    ELSE IF Includes(message, <<"rate", "limit">>)
    THEN ErrRateLimit
    ELSE IF Includes(message, <<"database">>) \/ Includes(message, <<"prisma">>)
    THEN ErrDatabase
    ELSE ErrUnexpected

\* Mutant of PostStatusCode: every error is answered 500.
PostStatusCodeDefault(error) == 500

\* The statusCode of the catch block of router.post('/message').
PostStatusCode(error) ==
    LET msg == ToLowerCase(error) IN
    IF Includes(msg, <<"required">>) \/ Includes(msg, <<"cannot", "be", "empty">>)
         \/ Includes(msg, <<"invalid", "session">>)
    THEN 400
    ELSE IF Includes(msg, <<"api", "key">>) \/ Includes(msg, <<"rate", "limit">>)
    THEN 503
    ELSE IF Includes(msg, <<"exceeds", "maximum">>)
    THEN 400
    ELSE 500

\* Mutant of HistoryStatusCode: only 'not found' is answered 404.
HistoryStatusCodeNotFound(error) ==
    IF Includes(error, <<"not", "found">>) THEN 404 ELSE 500

\* The statusCode of the catch block of router.get('/history/:sessionId').
HistoryStatusCode(error) ==
    IF Includes(error, <<"not", "found">>) \/ Includes(error, <<"required">>)
         \/ Includes(error, <<"Invalid", "session", "ID", "format">>)
    THEN 404
    ELSE 500

\* The response to request q of POST /chat/message.
PostResponse(q, isProduction) ==
    IF q.status = "ok"
    THEN [status |-> 200, body |-> [reply |-> q.reply, sessionId |-> q.outSessionId]]
    ELSE [status |-> PostStatusCode(q.error),
          body |-> [error |-> sanitizeErrorMessage(q.error, isProduction)]]

\* The response to request q of GET /chat/history/:sessionId.
HistoryResponse(q, isProduction) ==
    IF q.status = "ok"
    THEN [status |-> 200,
          body |-> [sessionId |-> q.outSessionId, messages |-> q.outMessages]]
    ELSE [status |-> HistoryStatusCode(q.error),
          body |-> [error |-> sanitizeErrorMessage(q.error, isProduction)]]

----------------------------------------------------------------------------
(* SpecHttp: a client's requests reach the two routes one after the other; *)
(* the Record Store fails with errors of various texts.                    *)

\* The messages of the errors the Record Store rejects with: the server
\* cannot be reached; a record an operation depends on is missing.
StorageMessages ==
    { <<"Can't", "reach", "database", "server">>,
      <<"An", "operation", "failed", "because", "it", "depends", "on", "one",
        "or", "more", "records", "that", "were", "required", "but", "not", "found">> }

\* The message fields of the bodies: missing, not a string, empty, blank,
\* valid, and of more than 5000 characters.
HttpMessages ==
    { Undefined, Number42, Str(<<>>), InvalidMessage, ValidMessage,
      Str(<<Run("a", MAX_MESSAGE_LENGTH + 1)>>) }

\* The sessionId fields of the bodies: missing, not a string, of the first
\* Conversation, malformed.
HttpSessionIds == {Undefined, False, Number42, Str(Uuid(1)), Str(MalformedId)}

\* The sessionId path parameters.
HttpHistoryIds == {Str(Uuid(1)), Str(StaleUuid), Str(MalformedId)}

NextHttp ==
    \E r \in Reqs :
        \/ \E m \in HttpMessages, s \in HttpSessionIds :
               InSeries(r) /\ PostMessage(r, m, s)
        \/ FindUnique(r)
        \/ CreateConversation(r)
        \/ CreateUserMessage(r)
        \/ FindManyHistory(r)
        \/ \E o \in ConcurrentOutcomes : Completion(r, o)
        \/ CreateAiMessage(r)
        \/ \E e \in StorageMessages : SendStorageFails(r, e)
        \/ \E s \in HttpHistoryIds : InSeries(r) /\ GetHistory(r, s)
        \/ HistoryFindUnique(r)
        \/ HistoryFindMany(r)
        \/ \E e \in StorageMessages : HistoryStorageFails(r, e)

SpecHttp == Init /\ [][NextHttp]_vars

----------------------------------------------------------------------------
(* SpecHistory: the history of the first Conversation is read from a       *)
(* Record Store that holds up to MaxRows Messages, one of which may have   *)
(* a sender other than user and ai and one of which may belong to the      *)
(* second Conversation.                                                    *)

\* The Message table of n rows in the order of their creation.
TableOf(n, odd, other, foreign) ==
    [i \in 1..n |->
        [id |-> <<Run("uuid-message", i)>>,
         conversationId |-> IF i = foreign THEN Uuid(2) ELSE Uuid(1),
         sender |-> RowsOf(n, "user", odd, other)[i].sender,
         text |-> RowsOf(n, "user", odd, other)[i].text,
         createdAt |-> i]]

InitHistory ==
    /\ conversations = {Uuid(1), Uuid(2)}
    /\ req = [r \in Reqs |-> IdleReq]
    /\ histLen = <<>>
    /\ ShaperIdle
    /\ LimiterIdle
    /\ \E n \in 0..MaxRows :
        \E odd \in 0..n, other \in OtherSenders, foreign \in 0..n :
            messages = TableOf(n, odd, other, foreign)

HistoryIds == {Str(Uuid(1)), Str(Uuid(2))}

NextHistory ==
    \E r \in Reqs :
        \/ \E s \in HistoryIds : InSeries(r) /\ GetConversationHistory(r, s)
        \/ HistoryFindUnique(r)
        \/ HistoryFindMany(r)
        \/ \E e \in StorageErrors : HistoryStorageFails(r, e)

SpecHistory == InitHistory /\ [][NextHistory]_vars

----------------------------------------------------------------------------
(* middleware/timeout.ts and SpecTimeout: sends reach the route one after  *)
(* the other, each under the timer that timeoutMiddleware set for it.      *)

REQUEST_TIMEOUT == 30000

\* Time passes while request r waits at an await of its handler.
Tick(r) ==
    /\ req[r].pc \notin {"idle", "done"}
    /\ req[r].elapsed < REQUEST_TIMEOUT
    /\ req' = [req EXCEPT ![r] = [@ EXCEPT !.elapsed = @ + REQUEST_TIMEOUT \div 3]]
    /\ UNCHANGED <<conversations, messages, histLen, shaperVars, limiterVars>>

\* The callback of setTimeout: the response has not been sent (the timer is
\* cleared on 'finish'), and 408 is sent.  Nothing else is done to the request.
TimeoutFires(r) ==
    /\ req[r].pc \notin {"idle", "done"}
    /\ req[r].elapsed >= REQUEST_TIMEOUT
    /\ ~req[r].timedOut
    /\ req' = [req EXCEPT ![r] = [@ EXCEPT !.timedOut = TRUE]]
    /\ UNCHANGED <<conversations, messages, histLen, shaperVars, limiterVars>>

TimeoutSessionIds == {Undefined, Str(Uuid(1))}

NextTimeout ==
    \E r \in Reqs :
        \/ \E s \in TimeoutSessionIds :
               InSeries(r) /\ PostMessage(r, ValidMessage, s)
        \/ FindUnique(r)
        \/ CreateConversation(r)
        \/ CreateUserMessage(r)
        \/ FindManyHistory(r)
        \/ \E o \in ConcurrentOutcomes : Completion(r, o)
        \/ CreateAiMessage(r)
        \/ \E e \in StorageErrors : SendStorageFails(r, e)
        \/ Tick(r)
        \/ TimeoutFires(r)

SpecTimeout == Init /\ [][NextTimeout]_vars

----------------------------------------------------------------------------
(* SpecGate: requests of one origin reach the routes through the layers,   *)
(* at a server the origin has sent to before.  The earlier sends carry no  *)
(* message: their handler answers 400 and leaves the Record Store as it    *)
(* is, so that only the layers remember them.  The r-th request that       *)
(* arrives afterwards is request r.                                        *)

EarlierSend ==
    HttpRequest(Ip(1), "POST", "/chat/message", Undefined, Str(Uuid(1)))

InitGate ==
    /\ conversations = {Uuid(1)}
    /\ messages = OneExchange
    /\ req = [r \in Reqs |-> IdleReq]
    /\ histLen = <<>>
    /\ ShaperIdle
    /\ now = 0
    /\ hits = [name \in LimiterNames |-> <<>>]
    /\ admitted = [name \in LimiterNames |-> <<>>]
    /\ last = NoRequest
    /\ traffic = [passes |-> 0, others |-> 0, sent |-> 0, fresh |-> 0,
                  firstAt |-> 0, finished |-> 0, profile |-> "earlier"]

\* One more earlier send, admitted by the general and the daily layer.
GateEarlier ==
    /\ traffic.profile = "earlier"
    /\ Arrive(EarlierSend)
    /\ last'.rejectedBy \in {"none", "chat", "session"}
    /\ UNCHANGED traffic

\* The origin has used up the general layer's window and waits for the next.
GateWait ==
    /\ traffic.profile = "earlier"
    /\ Client(hits["api"], Ip(1), apiLimiter.windowMs, now).totalHits
         = apiLimiter.max
    /\ AdvanceTime(apiLimiter.windowMs)

\* The requests that arrive: the health check, a history read, a send and
\* a send of a blank message on the first Conversation, and a send without
\* sessionId.
GateRequests ==
    { HttpRequest(Ip(1), "GET", "/health", Undefined, Undefined),
      HttpRequest(Ip(1), "GET", "/chat/history/:sessionId", Undefined, Undefined),
      HttpRequest(Ip(1), "POST", "/chat/message", ValidMessage, Str(Uuid(1))),
      HttpRequest(Ip(1), "POST", "/chat/message", InvalidMessage, Str(Uuid(1))),
      HttpRequest(Ip(1), "POST", "/chat/message", ValidMessage, Undefined) }

\* The sessionId path parameters of a history read.
GateHistoryIds == {Str(Uuid(1)), Str(StaleUuid)}

\* The response to the request before is finished.
GateOpen == traffic.finished = traffic.sent

\* The next request arrives and passes the layers on its way.
GateArrive(request) ==
    /\ traffic.sent < MaxReqs
    /\ GateOpen
    /\ Arrive(request)
    /\ traffic' = [traffic EXCEPT !.sent = @ + 1, !.profile = "live"]

\* next(): the request that arrived last reaches the handler of its route.
GateDispatch ==
    /\ traffic.sent > 0
    /\ HandlerRuns(last)
    /\ LET r == traffic.sent
           request == last.request
       IN  IF request.path = "/health" THEN GetHealth(r)
           ELSE IF request.method = "GET"
           THEN \E sessionId \in GateHistoryIds : GetHistory(r, sessionId)
           ELSE PostMessage(r, request.message, request.sessionId)

\* The status of the response to the request that arrived last.
GateStatusCode ==
    LET q == req[traffic.sent] IN
    IF ~HandlerRuns(last) THEN 429
    ELSE IF q.op = "health" THEN 200
    ELSE IF q.op = "send" THEN PostResponse(q, FALSE).status
    ELSE HistoryResponse(q, FALSE).status

\* The response to the request that arrived last is sent: 'finish'.
GateFinish ==
    /\ traffic.finished < traffic.sent
    /\ ~HandlerRuns(last) \/ req[traffic.sent].pc = "done"
    /\ hits' = OnFinish(LimitersOf(last.request), last.request,
                        DOMAIN last.before, GateStatusCode, hits)
    /\ traffic' = [traffic EXCEPT !.finished = @ + 1]
    /\ UNCHANGED <<now, admitted, last, storeVars, shaperVars>>

NextGate ==
    \/ GateEarlier
    \/ GateWait
    \/ \E request \in GateRequests : GateArrive(request)
    \/ GateDispatch
    \/ GateFinish
    \/ \E r \in Reqs :
        \/ FindUnique(r)
        \/ CreateConversation(r)
        \/ CreateUserMessage(r)
        \/ FindManyHistory(r)
        \/ \E o \in ConcurrentOutcomes : Completion(r, o)
        \/ CreateAiMessage(r)
        \/ \E e \in StorageErrors : SendStorageFails(r, e)
        \/ HistoryFindUnique(r)
        \/ HistoryFindMany(r)
        \/ \E e \in StorageErrors : HistoryStorageFails(r, e)

SpecGate == InitGate /\ [][NextGate]_vars

----------------------------------------------------------------------------
(* components/ChatWidget.tsx and SpecWidget: one chat widget talks to the  *)
(* server through the layers.  traffic.widget holds the widget: its        *)
(* sessionId state, the localStorage item spur_chat_sessionId, isLoading   *)
(* and whether the mount effect has run.  The Record Store does not fail.  *)

\* The localStorage item when the widget is mounted: none, the id of a
\* Conversation that is gone, the id of the first Conversation.
SavedSessionIds == {Undefined, Str(StaleUuid), Str(Uuid(1))}

\* What the user types: a question, and a text of more than 5000 characters.
WidgetInputs == {ValidMessage, Str(<<Run("a", MAX_MESSAGE_LENGTH + 1)>>)}

\* The reply of the Completion Provider.
WidgetOutcomes ==
    { Response(<<Str(<<Run(" ", 1), Run("Hello!", 1), Run("\n", 1)>>)>>) }

InitWidget ==
    /\ conversations = {Uuid(1)}
    /\ messages = OneExchange
    /\ req = [r \in Reqs |-> IdleReq]
    /\ histLen = <<>>
    /\ ShaperIdle
    /\ now = 0
    /\ hits = [name \in LimiterNames |-> <<>>]
    /\ admitted = [name \in LimiterNames |-> <<>>]
    /\ last = NoRequest
    /\ \E saved \in SavedSessionIds :
        traffic = [passes |-> 0, others |-> 0, sent |-> 0, fresh |-> 0,
                   firstAt |-> 0, finished |-> 0, profile |-> "widget",
                   widget |-> [sessionId |-> Undefined, localStorage |-> saved,
                               isLoading |-> FALSE, mounted |-> FALSE]]

\* loadConversation: setSessionId(savedSessionId) and, when there is one,
\* GET /chat/history/:sessionId, whose answer fills the list of displayed
\* messages only.
WidgetMount ==
    /\ ~traffic.widget.mounted
    /\ IF Truthy(traffic.widget.localStorage)
       THEN Arrive(HttpRequest(Ip(1), "GET", "/chat/history/:sessionId",
                               Undefined, Undefined))
       ELSE UNCHANGED <<now, hits, admitted, last, storeVars, shaperVars>>
    /\ traffic' = [traffic EXCEPT
                       !.widget.sessionId = traffic.widget.localStorage,
                       !.widget.mounted = TRUE]

\* sendMessage up to apiClient.post: nothing is sent for a blank input or
\* while isLoading.
WidgetSend(input) ==
    /\ traffic.widget.mounted
    /\ ~traffic.widget.isLoading
    /\ Length(Trim(input.val)) # 0
    /\ traffic.sent < sessionLimiter.max + MaxReqs + 1
    /\ Arrive(HttpRequest(Ip(1), "POST", "/chat/message", Str(Trim(input.val)),
                          IF Truthy(traffic.widget.sessionId)
                          THEN traffic.widget.sessionId ELSE Undefined))
    /\ traffic' = [traffic EXCEPT !.sent = @ + 1, !.widget.isLoading = TRUE]

\* next(): the send reaches router.post('/message').
WidgetDispatch ==
    /\ traffic.widget.isLoading
    /\ HandlerRuns(last)
    /\ PostMessage(1, last.request.message, last.request.sessionId)

\* The status of the response to the send.
WidgetStatusCode ==
    IF ~HandlerRuns(last) THEN 429 ELSE PostResponse(req[1], FALSE).status

\* Mutant of WidgetResponse: the returned sessionId is not kept.
WidgetResponseForgets ==
    /\ traffic.widget.isLoading
    /\ ~HandlerRuns(last) \/ req[1].pc = "done"
    /\ hits' = OnFinish(LimitersOf(last.request), last.request,
                        DOMAIN last.before, WidgetStatusCode, hits)
    /\ req' = [req EXCEPT ![1] = IdleReq]
    /\ traffic' = [traffic EXCEPT !.finished = @ + 1, !.widget.isLoading = FALSE]
    /\ UNCHANGED <<now, admitted, last, conversations, messages, histLen,
                   shaperVars>>

\* The response arrives: sendMessage after apiClient.post.  A 2xx answer
\* with a sessionId is kept in the state and in localStorage; an error
\* changes neither.
WidgetResponse ==
    /\ traffic.widget.isLoading
    /\ ~HandlerRuns(last) \/ req[1].pc = "done"
    /\ hits' = OnFinish(LimitersOf(last.request), last.request,
                        DOMAIN last.before, WidgetStatusCode, hits)
    /\ req' = [req EXCEPT ![1] = IdleReq]
    /\ traffic' =
         IF WidgetStatusCode = 200 /\ req[1].outSessionId # <<>>
         THEN [traffic EXCEPT !.finished = @ + 1,
                              !.widget.isLoading = FALSE,
                              !.widget.sessionId = Str(req[1].outSessionId),
                              !.widget.localStorage = Str(req[1].outSessionId)]
         ELSE [traffic EXCEPT !.finished = @ + 1, !.widget.isLoading = FALSE]
    /\ UNCHANGED <<now, admitted, last, conversations, messages, histLen,
                   shaperVars>>

\* 5 minutes pass between two sends, within 15 minutes of the mount.
WidgetPause ==
    /\ traffic.widget.mounted
    /\ ~traffic.widget.isLoading
    /\ now + 5 * 60 * 1000 < 15 * 60 * 1000
    /\ AdvanceTime(5 * 60 * 1000)

NextWidget ==
    \/ WidgetMount
    \/ \E input \in WidgetInputs : WidgetSend(input)
    \/ WidgetDispatch
    \/ WidgetResponse
    \/ WidgetPause
    \/ \E r \in Reqs :
        \/ FindUnique(r)
        \/ CreateConversation(r)
        \/ CreateUserMessage(r)
        \/ FindManyHistory(r)
        \/ \E o \in WidgetOutcomes : Completion(r, o)
        \/ CreateAiMessage(r)

SpecWidget == InitWidget /\ [][NextWidget]_vars

----------------------------------------------------------------------------
(* Claims *)

Range(f) == {f[i] : i \in DOMAIN f}

\* A send call that got past validation and whose storage operations all
\* succeeded so far.
CleanSend(q) ==
    /\ q.op = "send"
    /\ ValidateMessage(q.message) = NoError
    /\ ~Truthy(q.sessionId) \/ validateSessionId(q.sessionId) = NoError
    /\ ~q.storageFailed

\* C1: whatever the Completion Provider call does, a send whose storage
\* operations succeed returns successfully, and the reply it returns and
\* persists as the ai Message is a non-empty string.
C1_ReplyNonEmpty ==
    \A r \in DOMAIN req :
        LET q == req[r] IN
        CleanSend(q) =>
            /\ q.pc = "createAiMessage" => Length(q.aiReply) > 0
            /\ q.pc = "done" =>
                /\ q.status = "ok"
                /\ Length(q.reply) > 0
                /\ \E i \in 1..Len(messages) :
                    /\ messages[i].conversationId = q.outSessionId
                    /\ messages[i].sender = "ai"
                    /\ messages[i].text = q.reply

\* C2: for a findMany result of any length, the turns passed to the
\* Completion Provider are at most 11, the first turn has role system and
\* no other turn has.
C2_TurnsBounded ==
    shaped # <<>> =>
        /\ Len(shaped) <= 11
        /\ shaped[1].role = "system"
        /\ \A i \in 2..Len(shaped) : shaped[i].role # "system"

C2_Witness ==
    /\ Len(rows) > 10
    /\ Len(shaped) = 11
    /\ \E i \in (Len(rows) - 9)..Len(rows) : rows[i].sender = "system"

Min(a, b) == IF a <= b THEN a ELSE b

\* C3: the turns after the system turn are the last min(10, n) of the n
\* rows read, in their order, each with the row's text as content, role
\* user for sender user and role assistant for every other sender.
C3_TurnsAreLastRows ==
    shaped # <<>> =>
        LET n == Len(rows)
            k == Min(10, n)
        IN  /\ Len(shaped) = k + 1
            /\ \A i \in 1..k :
                /\ shaped[i + 1].content = rows[n - k + i].text
                /\ shaped[i + 1].role =
                     IF rows[n - k + i].sender = "user" THEN "user" ELSE "assistant"

C3_Witness ==
    /\ Len(rows) = 12
    /\ shaped # <<>>
    /\ shaped[2].content = rows[3].text
    /\ \E i \in 3..12 : rows[i].sender \notin {"user", "ai"}

\* C4: the turns a send passes to the Completion Provider are built after
\* its own user Message was persisted and contain that Message.
C4_OwnMessageInTurns ==
    \A r \in DOMAIN req :
        req[r].pc = "llm" =>
            /\ \E i \in 1..Len(messages) : messages[i].id = req[r].userMsgId
            /\ req[r].userMsgId \in Range(req[r].sentIds)

\* No other request names Conversation c.
UntouchedIn(reqs, r, c) ==
    \A o \in DOMAIN reqs : o # r => reqs[o].sessionId # Str(c)

Untouched(r, c) == UntouchedIn(req, r, c)

\* A send without sessionId that returned successfully.
FirstSendDone(q) ==
    q.op = "send" /\ q.pc = "done" /\ q.status = "ok" /\ ~Truthy(q.sessionId)

\* C5: a successful send without sessionId returns the id of a Conversation
\* that did not exist before the call (no step of a call creates an id the
\* store holds already), and while no other request names that Conversation
\* it holds two Messages: the user Message with the trimmed message, then
\* the ai Message with the returned reply.
C5_FirstSend ==
    [][\A r \in DOMAIN req :
        /\ (req'[r].created \ req[r].created) \cap conversations = {}
        /\ (FirstSendDone(req'[r]) /\ UntouchedIn(req', r, req'[r].outSessionId)) =>
            LET q == req'[r]
                c == q.outSessionId
                under == FindManyIn(messages', c)
            IN  /\ c \in conversations'
                /\ q.created = {c}
                /\ Len(under) = 2
                /\ under[1].sender = "user"
                /\ under[1].text = Trim(q.message.val)
                /\ under[2].sender = "ai"
                /\ under[2].text = q.reply]_vars

C5_Witness ==
    \E r \in DOMAIN req :
        /\ FirstSendDone(req[r])
        /\ Untouched(r, req[r].outSessionId)
        /\ req[r].message.val # Trim(req[r].message.val)
        /\ Len(FindMany(req[r].outSessionId)) = 2

\* A request with a well-formed sessionId that matches no Conversation.
UnknownSession(q) ==
    /\ Truthy(q.sessionId)
    /\ validateSessionId(q.sessionId) = NoError
    /\ q.sessionId.val \notin conversations

\* C6: a send with a valid message and a well-formed sessionId of no
\* Conversation succeeds, creates exactly one Conversation and returns its
\* id, which differs from the supplied one; no Conversation gets the
\* supplied id.
C6_UnknownSessionSend ==
    \A r \in DOMAIN req :
        LET q == req[r] IN
        (CleanSend(q) /\ q.pc = "done" /\ UnknownSession(q)) =>
            /\ q.status = "ok"
            /\ q.outSessionId # q.sessionId.val
            /\ q.outSessionId \in conversations
            /\ q.created = {q.outSessionId}

C6_Witness ==
    \E r \in DOMAIN req :
        /\ CleanSend(req[r]) /\ req[r].pc = "done" /\ UnknownSession(req[r])
        /\ req[r].created # {}

\* C7: history with a well-formed sessionId of no Conversation fails with
\* not-found and creates no Conversation (no history call ever creates
\* one), and a send with that sessionId does not fail.
C7_HistoryNotFound ==
    \A r \in DOMAIN req :
        LET q == req[r] IN
        /\ q.op = "history" => q.created = {}
        /\ (q.op = "history" /\ q.pc = "done" /\ UnknownSession(q) /\ ~q.storageFailed) =>
            /\ q.status = "error"
            /\ q.error = ErrNotFound
        /\ (CleanSend(q) /\ q.pc = "done" /\ UnknownSession(q)) => q.status = "ok"

C7_Witness ==
    \E r, o \in DOMAIN req :
        /\ req[r].op = "history" /\ req[r].pc = "done" /\ UnknownSession(req[r])
        /\ ~req[r].storageFailed
        /\ req[o].op = "send" /\ req[o].pc = "done" /\ req[o].status = "ok"
        /\ req[o].sessionId = req[r].sessionId

IsPrefix(s, t) == Len(s) <= Len(t) /\ \A i \in 1..Len(s) : t[i] = s[i]

ClaimedCap(name) ==
    CASE name = "api" -> 100
      [] name = "daily" -> 200
      [] name = "chat" -> 50
      [] name = "session" -> 20

\* C9: for each of the four layers and each key, whatever the order in
\* which requests arrive, the layer admits at most its cap of requests in
\* one window of the key (general 100 and 15 minutes, daily 200 and 24
\* hours, per-origin 50 and 15 minutes, per-conversation 20 and 15
\* minutes); a request that reaches a layer which has admitted its cap for
\* the key in the window is rejected by that layer, and the first request
\* of a key that reaches a layer after the key's window is over is not
\* rejected by that layer.
C9_LayerCaps ==
    /\ \A name \in LimiterNames : \A key \in DOMAIN admitted[name] :
            admitted[name][key].count <= ClaimedCap(name)
    /\ \A name \in DOMAIN last.before :
        /\ last.before[name] = ClaimedCap(name) => last.rejectedBy = name
        /\ last.before[name] = 0 => last.rejectedBy # name

\* A valid send is the first request of a new general window of its origin
\* and the 201st request that reaches the daily layer in the origin's day.
C9_Witness ==
    /\ last # NoRequest
    /\ ValidateMessage(last.request.message) = NoError
    /\ last.rejectedBy = "daily"
    /\ last.before["daily"] = 200
    /\ last.before["api"] = 0
    /\ now > 0

\* C10: the 51st send of an origin, when all 51 arrive within 15 minutes
\* of the first at a server without other traffic, is rejected, and the
\* layer that rejects it is the per-origin 15-minute layer, whatever the
\* messages and the sessionIds of the 51 sends are.
C10_FiftyFirstSend ==
    (/\ traffic.sent = 51
     /\ last # NoRequest
     /\ now < traffic.firstAt + 15 * 60 * 1000) => last.rejectedBy = "chat"

\* The 51st send arrives minutes after the first with an invalid message, on
\* a sessionId for which the per-conversation layer has admitted its cap.
C10_Witness ==
    /\ traffic.sent = 51
    /\ last # NoRequest
    /\ now > traffic.firstAt
    /\ ValidateMessage(last.request.message) # NoError
    /\ last.rejectedBy = "chat"
    /\ last.request.sessionId = Str(Uuid(1))
    /\ Uuid(1) \in DOMAIN admitted["session"]
    /\ admitted["session"][Uuid(1)].count = 20

----------------------------------------------------------------------------
(* C11 *)

\* The layers in front of POST /chat/message, in order.
SendLayers == <<"api", "daily", "chat", "session">>

\* The first k layers.
FirstLayers(k) == {SendLayers[i] : i \in 1..k}

\* The layers that counted a send are the layers up to the one that
\* rejected it, or all four.
CountedInOrder(outcome) ==
    \E k \in 1..Len(SendLayers) :
        /\ DOMAIN outcome.before = FirstLayers(k)
        /\ IF outcome.rejectedBy = "none" THEN k = Len(SendLayers)
           ELSE SendLayers[k] = outcome.rejectedBy

C11_Step ==
    /\ (last' # last /\ last'.request # Undefined
          /\ last'.request.path = "/chat/message")
         => /\ CountedInOrder(last')
            /\ UNCHANGED storeVars
    /\ \A r \in Reqs :
         (req[r].pc = "idle" /\ req'[r] # req[r] /\ req'[r].op = "send")
           => /\ r = traffic.sent
              /\ last.request.path = "/chat/message"
              /\ last.rejectedBy = "none"
              /\ DOMAIN last.before = FirstLayers(Len(SendLayers))
    /\ (traffic.sent > 0 /\ last.rejectedBy # "none")
         => /\ req[traffic.sent] = IdleReq
            /\ req'[traffic.sent] = IdleReq

\* C11: a send passes the general, the daily, the per-IP and the
\* per-session layer in this order and reaches the coordinator only when
\* all four admit it; a send that a layer rejects is not looked at by any
\* later layer, is not validated, and reads and writes nothing in the Record
\* Store and calls no Completion Provider.
C11_LayersBeforeCoordinator == [][C11_Step]_vars

\* A send was admitted by the four layers and answered, and the next send
\* was rejected by a layer and has not reached the coordinator.
C11_Witness ==
    /\ traffic.sent = 2
    /\ req[1].op = "send" /\ req[1].status = "ok"
    /\ last.request # Undefined
    /\ last.request.path = "/chat/message"
    /\ last.rejectedBy # "none"
    /\ req[2] = IdleReq

----------------------------------------------------------------------------
(* C12 *)

\* The sends the per-session layer admitted in the running windows, over
\* the keys of a set.
RECURSIVE SessionAdmitted(_)
SessionAdmitted(keys) ==
    IF keys = {} THEN 0
    ELSE LET key == CHOOSE k \in keys : TRUE
         IN  admitted["session"][key].count + SessionAdmitted(keys \ {key})

----------------------------------------------------------------------------
(* C13 *)

\* The layers that count a request of a route when none rejects it.
LayersOfRoute(request) ==
    IF request.path = "/health" THEN {"api"}
    ELSE IF request.method = "GET" THEN {"api", "daily", "chat"}
    ELSE {"api", "daily", "chat", "session"}

C13_Step ==
    (last' # last /\ last'.request # Undefined)
      => LET request == last'.request
             layers == LayersOfRoute(request)
         IN  /\ DOMAIN last'.before \subseteq layers
             /\ "api" \in DOMAIN last'.before
             /\ last'.rejectedBy = "none" => DOMAIN last'.before = layers
             /\ last'.rejectedBy \in layers \cup {"none"}
             /\ \A name \in LimiterNames \ layers :
                    /\ hits'[name] = hits[name]
                    /\ admitted'[name] = admitted[name]
             /\ \A name \in DOMAIN last'.before :
                    /\ hits'[name] # hits[name]
                    /\ last'.before[name] >= ClaimedCap(name)
                         => last'.rejectedBy = name

\* C13: GET /health is counted and limited by the general layer only;
\* GET /chat/history/:sessionId by the general, the daily and the per-IP
\* layer, and it neither reads nor changes a counter of the per-session
\* layer; POST /chat/message by all four layers.
C13_LayersOfRoutes == [][C13_Step]_vars

\* A health check has been answered and a history read has been admitted
\* by its three layers, while the per-session layer holds a counter at its
\* cap, which is as it was.
C13_Witness ==
    /\ traffic.sent = 2
    /\ req[1].op = "health"
    /\ last.request # Undefined
    /\ last.request.method = "GET"
    /\ last.request.path # "/health"
    /\ last.rejectedBy = "none"
    /\ DOMAIN last.before = {"api", "daily", "chat"}
    /\ Uuid(1) \in DOMAIN hits["session"]
    /\ hits["session"][Uuid(1)].totalHits = sessionLimiter.max

----------------------------------------------------------------------------
(* C14 *)

\* The characters of a message between its leading and trailing whitespace.
CoreLength(message) == Length(Trim(message.val))

\* C14: a send fails with the message-required or the message-empty
\* condition when the message is missing, is not a string, is empty or is
\* only whitespace; it fails with the length condition exactly when the
\* trimmed message has more than 5000 characters; a message whose trimmed
\* length is between 1 and 5000 passes the validation, also when it has
\* more than 5000 characters untrimmed.
C14_MessageValidation ==
    \A r \in Reqs :
        (req[r].op = "send" /\ req[r].pc # "idle") =>
            LET q == req[r]
                m == q.message
                blank == m.type # "string" \/ CoreLength(m) = 0
            IN  /\ blank => /\ q.pc = "done" /\ q.status = "error"
                            /\ q.error \in {ErrMessageRequired, ErrMessageEmpty}
                /\ q.error = ErrMessageTooLong
                     <=> (m.type = "string" /\ CoreLength(m) > 5000)
                /\ (~blank /\ CoreLength(m) <= 5000)
                     => /\ q.error \notin {ErrMessageRequired, ErrMessageEmpty,
                                           ErrMessageTooLong}
                        /\ q.trimmedMessage = Trim(m.val)

\* A send of a message of more than 5000 characters, of which 5000 are
\* left after trimming, has been answered with a reply.
C14_Witness ==
    \E r \in Reqs :
        /\ req[r].op = "send" /\ req[r].status = "ok"
        /\ Length(req[r].message.val) > 5000
        /\ CoreLength(req[r].message) = 5000

----------------------------------------------------------------------------
(* C15 *)

\* C15: a send with a valid message and a sessionId that is present but is
\* not a well-formed UUID fails as a validation failure: with the error of
\* validateSessionId, not with the storage condition, and without creating
\* a Conversation.  processMessage validates the sessionId inside its try
\* block, and its catch block rethrows the error as the storage condition.
C15_MalformedSessionId ==
    \A r \in Reqs :
        LET q == req[r] IN
        (/\ q.op = "send" /\ q.pc = "done"
         /\ ValidateMessage(q.message) = NoError
         /\ q.sessionId.type = "string"
         /\ Truthy(q.sessionId)
         /\ ~isValidUUID(q.sessionId.val)) =>
            /\ q.status = "error"
            /\ q.error = ErrSessionFormat
            /\ q.error # ErrDatabase
            /\ q.created = {}

----------------------------------------------------------------------------
(* C16 *)

\* C16: when an operation of the Record Store fails during a send or a
\* history read, whatever the message of its error, the caller gets the
\* generic storage condition only ('Database error. Please try again
\* later.' for a send, 'Failed to fetch conversation history' for a history
\* read), and the message of the error reaches neither the caller nor the
\* HTTP client.  The catch blocks rethrow an error as it is when its message
\* contains one of the texts they look for.
C16_StorageErrorHidden ==
    \A r \in Reqs :
        LET q == req[r] IN
        q.storageFailed =>
            /\ q.status = "error"
            /\ q.error = IF q.op = "send" THEN ErrDatabase ELSE ErrHistory
            /\ \A isProduction \in BOOLEAN :
                 LET response == IF q.op = "send"
                                 THEN PostResponse(q, isProduction)
                                 ELSE HistoryResponse(q, isProduction)
                 IN  response.body.error \notin StorageMessages

----------------------------------------------------------------------------
(* C17 *)

\* The text that names the validation failure of a body, NoError when the
\* body is valid: the sessionId is looked at first.
SpecificText(message, sessionId) ==
    IF Truthy(sessionId) /\ sessionId.type # "string" THEN ErrSessionRequired
    ELSE IF Truthy(sessionId) /\ ~isValidUUID(sessionId.val) THEN ErrSessionFormat
    ELSE IF message.type # "string" \/ message.val = <<>> THEN ErrMessageRequired
    ELSE IF Length(Trim(message.val)) = 0 THEN ErrMessageEmpty
    ELSE IF Length(Trim(message.val)) > 5000 THEN ErrMessageTooLong
    ELSE NoError

\* C17: every validation failure of POST /chat/message (message missing or
\* not a string, empty, of more than 5000 characters, sessionId malformed)
\* is reported to the client with the error text of that failure, in
\* production as well as outside it.  In production sanitizeErrorMessage
\* keeps the texts with 'required' and 'cannot be empty' only.
C17_ValidationTextSpecific ==
    \A r \in Reqs : \A isProduction \in BOOLEAN :
        LET q == req[r] IN
        (/\ q.op = "send" /\ q.pc = "done"
         /\ SpecificText(q.message, q.sessionId) # NoError) =>
            PostResponse(q, isProduction).body
                = [error |-> SpecificText(q.message, q.sessionId)]

----------------------------------------------------------------------------
(* C18 *)

\* The stored Messages of a Conversation.
StoredOf(conversationId) ==
    {i \in 1..Len(messages) : messages[i].conversationId = conversationId}

\* C18: the history of an existing Conversation holds every Message of the
\* Conversation, without a limit (also when there are more than 10), in
\* ascending order of creation, each with its stored id, text and createdAt
\* and with its stored sender when that is user or ai, and ai otherwise.
C18_FullHistory ==
    \A r \in Reqs :
        LET q == req[r] IN
        (q.op = "history" /\ q.status = "ok") =>
            LET out == q.outMessages
                stored == StoredOf(q.sessionId.val)
            IN  /\ Len(out) = Cardinality(stored)
                /\ \A i \in stored : \E j \in 1..Len(out) :
                       /\ out[j].id = messages[i].id
                       /\ out[j].text = messages[i].text
                       /\ out[j].createdAt = messages[i].createdAt
                       /\ out[j].sender =
                            IF messages[i].sender \in {"user", "ai"}
                            THEN messages[i].sender ELSE "ai"
                /\ \A j, k \in 1..Len(out) :
                       j < k => out[j].createdAt < out[k].createdAt

\* A history of more than 10 Messages has been returned, one of them stored
\* with a sender that is neither user nor ai.
C18_Witness ==
    \E r \in Reqs :
        /\ req[r].op = "history" /\ req[r].status = "ok"
        /\ Len(req[r].outMessages) > 10
        /\ \E i \in StoredOf(req[r].sessionId.val) :
               messages[i].sender \notin {"user", "ai"}

----------------------------------------------------------------------------
(* C19 *)

\* C19: POST /chat/message is answered 200 with the reply and the sessionId
\* when the send succeeds, 400 when the validation fails (message missing,
\* not a string, empty or of more than 5000 characters; sessionId malformed
\* or not a string), and 500 when the Record Store fails; no answer has the
\* status 503 or any other.  A storage error that the catch block of
\* processMessage rethrows as it is gets the status of its text, and a
\* sessionId that is not a string but falsy is taken as missing.
C19_PostStatus ==
    \A r \in Reqs : \A isProduction \in BOOLEAN :
        LET q == req[r]
            response == PostResponse(q, isProduction)
            invalid ==
                \/ q.message.type # "string"
                \/ Length(Trim(q.message.val)) = 0
                \/ Length(Trim(q.message.val)) > 5000
                \/ q.sessionId.type \notin {"undefined", "string"}
                \/ (q.sessionId.type = "string" /\ Truthy(q.sessionId)
                      /\ ~isValidUUID(q.sessionId.val))
        IN  (q.op = "send" /\ q.pc = "done") =>
                /\ response.status \in {200, 400, 500}
                /\ invalid <=> response.status = 400
                /\ q.storageFailed <=> response.status = 500
                /\ response.status = 200 =>
                       /\ q.status = "ok"
                       /\ response.body = [reply |-> q.reply,
                                           sessionId |-> q.outSessionId]

----------------------------------------------------------------------------
(* C20 *)

\* C20: GET /chat/history/:sessionId is answered 404 when the sessionId is
\* malformed and when it is well-formed and of no Conversation, 500 when an
\* operation of the Record Store fails, whatever the text of its error, and
\* 200 otherwise.  A storage error whose message contains 'not found' is
\* rethrown as it is by getConversationHistory and answered 404.
C20_HistoryStatus ==
    \A r \in Reqs : \A isProduction \in BOOLEAN :
        LET q == req[r]
            response == HistoryResponse(q, isProduction)
        IN  (q.op = "history" /\ q.pc = "done") =>
                response.status =
                    IF ~isValidUUID(q.sessionId.val) THEN 404
                    ELSE IF q.storageFailed THEN 500
                    ELSE IF q.sessionId.val \notin conversations THEN 404
                    ELSE 200

----------------------------------------------------------------------------
(* C21 *)

\* Request r takes a step of its handler.
HandlerStep(r) == req'[r].pc # req[r].pc

C21_Step ==
    \A r \in Reqs :
        req[r].timedOut =>
            /\ ~(HandlerStep(r) /\ req'[r].pc = "llm")
            /\ ~(HandlerStep(r) /\ Len(messages') > Len(messages))
            /\ ~(HandlerStep(r) /\ req'[r].pc = "done")

\* C21: when a request runs longer than the 30 seconds of the request
\* timeout, the client is sent the timeout response and the request is
\* aborted: after that response the request calls no Completion Provider,
\* persists no Message and attempts no second response.  The timer's
\* callback only sends the 408; the handler goes on from its await.
C21_TimeoutAborts == [][C21_Step]_vars

----------------------------------------------------------------------------
(* C22 *)

\* The Messages with an id.
MessagesWithId(table, id) == {i \in 1..Len(table) : table[i].id = id}

C22_Step ==
    /\ \A i \in 1..Len(messages') : messages'[i].conversationId \in conversations'
    /\ \A r \in Reqs :
        (req[r].pc # "done" /\ req'[r].pc = "done"
           /\ req'[r].op = "send" /\ req'[r].status = "ok") =>
            LET q == req'[r]
                ai == messages'[Len(messages')]
            IN  /\ q.outSessionId \in conversations'
                /\ Len(messages') = Len(messages) + 1
                /\ ai.sender = "ai"
                /\ ai.conversationId = q.outSessionId
                /\ MessagesWithId(messages', q.userMsgId) # {}
                /\ \A i \in MessagesWithId(messages', q.userMsgId) :
                       /\ messages'[i].sender = "user"
                       /\ messages'[i].conversationId = q.outSessionId

\* C22: a successful send returns a sessionId of a Conversation that is in
\* the Record Store when the send returns, and the user Message and the ai
\* Message the send persisted belong to that Conversation; in every
\* reachable state the conversationId of every Message is the id of a
\* Conversation in the Record Store.
C22_ReturnedSessionExists == [][C22_Step]_vars

\* A send on a sessionId of no Conversation has returned the id of the
\* Conversation it created, while another request was under way.
C22_Witness ==
    \E r \in Reqs :
        /\ req[r].op = "send" /\ req[r].status = "ok"
        /\ req[r].sessionId = Str(StaleUuid)
        /\ req[r].created = {req[r].outSessionId}
        /\ \E o \in Reqs : o # r /\ req[o].pc \notin {"idle", "done"}

----------------------------------------------------------------------------
(* C23 *)

\* The hits a layer has counted for a key in the key's running window.
HitsIn(stores, name, key, t) ==
    IF key \in DOMAIN stores[name] /\ stores[name][key].resetTime > t
    THEN stores[name][key].totalHits
    ELSE 0

\* The key of a request at a layer: the sessionId of the body at the
\* per-session layer when there is one, the origin otherwise.
KeyAt(name, request) ==
    IF name = "session" /\ request.sessionId.type = "string"
         /\ request.sessionId.val # <<>>
    THEN request.sessionId.val
    ELSE request.ip

C23_Step ==
    /\ (last' # last /\ last'.request # Undefined /\ last'.rejectedBy = "none") =>
         \A name \in LimiterNames :
            LET key == KeyAt(name, last'.request) IN
            HitsIn(hits', name, key, now) =
                HitsIn(hits, name, key, now)
                  + IF name \in LayersOfRoute(last'.request) THEN 1 ELSE 0
    /\ (req' # req \/ traffic'.finished # traffic.finished) => hits' = hits
    /\ now' = now =>
         \A name \in LimiterNames : \A key \in DOMAIN hits[name] :
            HitsIn(hits', name, key, now) >= HitsIn(hits, name, key, now)

\* C23: a request that all its layers admit adds exactly one to the counter
\* of its key at each of those layers, whether it then succeeds, fails the
\* validation or fails in storage; no step of the handler and no response
\* takes a count back.
C23_ChargedAtAdmission == [][C23_Step]_vars

\* The responses to two admitted sends are finished, one that failed the
\* validation and one that failed in storage, and the general layer holds
\* the hits of both.
C23_Witness ==
    /\ traffic.finished = 2
    /\ req[1].op = "send" /\ req[1].error = ErrMessageEmpty
    /\ req[2].op = "send" /\ req[2].storageFailed
    /\ HitsIn(hits, "api", Ip(1), now) >= 2
    /\ HitsIn(hits, "daily", Ip(1), now) >= 2

----------------------------------------------------------------------------
(* C24 *)

\* The message fails the input validation of a send.
FailsValidation(message) ==
    \/ message.type # "string"
    \/ CoreLength(message) = 0
    \/ CoreLength(message) > 5000

C24_Step ==
    \A r \in Reqs :
        (req'[r].op = "send" /\ req'[r] # req[r]
           /\ FailsValidation(req'[r].message)) =>
            /\ req[r].pc = "idle"
            /\ req'[r].pc = "done"
            /\ req'[r].status = "error"
            /\ req'[r].created = {}
            /\ req'[r].userMsgId = <<>>
            /\ conversations' = conversations
            /\ messages' = messages

\* C24: a send that fails the validation of its message looks up and
\* creates no Conversation, persists no Message and calls no Completion
\* Provider: the call returns at once and leaves the Record Store as it
\* was, also when the sessionId is that of a Conversation, is stale or is
\* malformed.
C24_InvalidMessageNoEffect == [][C24_Step]_vars

\* A send has created a Conversation, and a send of an invalid message
\* on the id of that Conversation has returned: the Record Store holds the
\* Conversation and the two Messages of the first send.
C24_Witness ==
    /\ req[1].op = "send" /\ req[1].status = "ok"
    /\ req[2].op = "send" /\ req[2].pc = "done"
    /\ FailsValidation(req[2].message)
    /\ req[2].sessionId = Str(req[1].outSessionId)
    /\ conversations = {req[1].outSessionId}
    /\ Len(messages) = 2

----------------------------------------------------------------------------
(* C25 *)

C25_Step ==
    /\ conversations \subseteq conversations'
    /\ IsPrefix(messages, messages')
    /\ Len(messages') <= Len(messages) + 1
    /\ \A r \in Reqs :
        /\ (req'[r] # req[r] /\ Len(messages') > Len(messages)) =>
              LET new == messages'[Len(messages')] IN
              IF new.sender = "ai"
              THEN req'[r].status = "ok"
              ELSE /\ new.sender = "user"
                   /\ req[r].userMsgId = <<>>
                   /\ req'[r].userMsgId = new.id
        /\ (req'[r] # req[r] /\ req'[r].op = "send" /\ req'[r].pc = "done"
              /\ req'[r].status = "error") =>
              LET q == req'[r] IN
              /\ conversations' = conversations
              /\ messages' = messages
              /\ Cardinality(q.created) <= 1
              /\ q.created \subseteq conversations'
              /\ q.userMsgId # <<>> =>
                    \E i \in 1..Len(messages') :
                        /\ messages'[i].id = q.userMsgId
                        /\ messages'[i].sender = "user"
                        /\ messages'[i].conversationId = q.conversationId

\* C25: a send that ends in an error has added to the Record Store at most
\* one Conversation and at most one Message, which is the user Message of
\* the call, and no ai Message; nothing that was written is taken back, so
\* that after a storage failure that follows the user Message, the user
\* Message and the Conversation the call created are in the Record Store.
C25_ErrorLeavesWrites == [][C25_Step]_vars

\* A send has created a Conversation and its user Message and has then
\* failed in storage.
C25_Witness ==
    \E r \in Reqs :
        /\ req[r].op = "send" /\ req[r].status = "error" /\ req[r].storageFailed
        /\ req[r].created # {}
        /\ req[r].userMsgId # <<>>
        /\ \E i \in 1..Len(messages) : messages[i].id = req[r].userMsgId

----------------------------------------------------------------------------
(* C26 *)

\* The sessionId of request q is well-formed and that of a Conversation.
OnExisting(q) ==
    /\ q.sessionId.type = "string"
    /\ isValidUUID(q.sessionId.val)
    /\ q.sessionId.val \in conversations

C26_Step ==
    \A r \in Reqs :
        req'[r] # req[r] =>
            /\ req'[r].op = "history" =>
                  /\ conversations' = conversations
                  /\ messages' = messages
            /\ (req'[r].op = "send" /\ OnExisting(req'[r])) =>
                  /\ conversations' = conversations
                  /\ req'[r].created = {}

\* C26: a send with a well-formed sessionId of an existing Conversation
\* creates no Conversation, and a history read creates, changes and removes
\* no Conversation and no Message: both leave the set of Conversations as
\* it is, and a history read leaves the Messages as they are.
C26_ReuseAndReadOnly == [][C26_Step]_vars

\* A send on the id of an existing Conversation has returned that id, and
\* a history read has returned.
C26_Witness ==
    \E r, h \in Reqs :
        /\ req[r].op = "send" /\ req[r].status = "ok"
        /\ OnExisting(req[r])
        /\ req[r].outSessionId = req[r].sessionId.val
        /\ req[h].op = "history" /\ req[h].status = "ok"

----------------------------------------------------------------------------
(* C27 *)

\* No storage operation has failed.
NoStorageFailure == \A r \in Reqs : ~req[r].storageFailed

\* Rows alternate user, ai, user, ai, ..., beginning with user.
Alternates(found) ==
    \A i \in 1..Len(found) :
        found[i].sender = IF i % 2 = 1 THEN "user" ELSE "ai"

C27_Step ==
    NoStorageFailure =>
        /\ \A c \in conversations' : Alternates(FindManyIn(messages', c))
        /\ \A r \in Reqs :
            \* the Completion Provider is called with the turns
            (req[r].pc = "findMany" /\ req'[r].pc = "llm") =>
                LET under == FindManyIn(messages, req[r].conversationId)
                    turns == req'[r].turns
                IN  /\ under # <<>>
                    /\ under[Len(under)].id = req[r].userMsgId
                    /\ under[Len(under)].sender = "user"
                    /\ turns[Len(turns)] =
                         [role |-> "user", content |-> under[Len(under)].text]
        /\ \A r \in Reqs :
            \* the reply to those turns is persisted
            (req[r].pc = "createAiMessage" /\ req'[r].pc = "done"
               /\ req'[r].status = "ok") =>
                LET under == FindManyIn(messages', req[r].conversationId)
                IN  /\ Len(under) >= 2
                    /\ under[Len(under)].sender = "ai"
                    /\ under[Len(under)].text = req'[r].reply
                    /\ under[Len(under) - 1].id = req[r].userMsgId

\* C27: when the sends on a Conversation do not overlap in time and no
\* storage operation fails, the Messages of the Conversation in the order
\* of their creation alternate user, ai, user, ai, ..., beginning with
\* user, and each ai Message is the reply to turns whose last turn is the
\* user Message right before it.
C27_Alternation == [][C27_Step]_vars

\* Two sends on one Conversation have returned, one after the other: the
\* Conversation holds four Messages.
C27_Witness ==
    /\ NoStorageFailure
    /\ req[1].status = "ok" /\ req[2].status = "ok"
    /\ req[1].op = "send" /\ req[2].op = "send"
    /\ req[2].outSessionId = req[1].outSessionId
    /\ Len(FindManyIn(messages, req[1].outSessionId)) = 4

----------------------------------------------------------------------------
(* C28 *)

\* The position of a layer on the way of a send.
LayerRank(name) == CHOOSE i \in 1..Len(SendLayers) : SendLayers[i] = name

C28_Step ==
    (last' # last /\ last'.request # Undefined /\ last'.rejectedBy # "none") =>
        LET request == last'.request
            rejecting == last'.rejectedBy
        IN  /\ rejecting \in LayersOfRoute(request)
            /\ \A name \in LimiterNames :
                 LET key == KeyAt(name, request) IN
                 IF name \in LayersOfRoute(request)
                      /\ LayerRank(name) <= LayerRank(rejecting)
                 THEN HitsIn(hits', name, key, now)
                        = HitsIn(hits, name, key, now) + 1
                 ELSE hits'[name] = hits[name]

\* C28: a request that a layer rejects has added one to the counter of
\* every layer before the rejecting one and of the rejecting layer, and
\* nothing to the counter of a layer after it; a send that the per-session
\* layer rejects has used up one of the general, the daily and the per-IP
\* quota of its origin.
C28_RejectedStillCounted == [][C28_Step]_vars

\* A send has been rejected by the per-session layer, after the general,
\* the daily and the per-IP layer have counted it.
C28_Witness ==
    /\ traffic.sent > 0
    /\ last.request # Undefined
    /\ last.rejectedBy = "session"
    /\ DOMAIN last.before = {"api", "daily", "chat", "session"}
    /\ HitsIn(hits, "chat", Ip(1), now) > sessionLimiter.max
    /\ HitsIn(hits, "session", Uuid(1), now) > sessionLimiter.max

----------------------------------------------------------------------------
(* C29 *)

\* The user Messages of a Conversation.
UserMessagesOf(c) ==
    {i \in 1..Len(messages) :
        messages[i].conversationId = c /\ messages[i].sender = "user"}

\* C29: in the 15 minutes after a Conversation was created, at most 20
\* sends are admitted that append a user Message to it, whether they come
\* without sessionId, with a stale sessionId or with the id of the
\* Conversation.  The send that creates the Conversation is counted under
\* another key (the origin, or the stale sessionId) than the sends on its
\* id: 21 are admitted.
C29_TwentyPerConversation ==
    now < 15 * 60 * 1000 =>
        \A c \in conversations \ {Uuid(1)} :
            Cardinality(UserMessagesOf(c)) <= 20

----------------------------------------------------------------------------
(* C30 *)

\* The widget holds the id of a Conversation of the Record Store.
WidgetOnConversation ==
    /\ traffic.widget.sessionId.type = "string"
    /\ traffic.widget.sessionId.val \in conversations

C30_Step ==
    \* a successful response: the returned sessionId is kept
    /\ (traffic.widget.isLoading /\ ~traffic'.widget.isLoading
          /\ last.rejectedBy = "none" /\ req[1].status = "ok") =>
         /\ traffic'.widget.sessionId = Str(req[1].outSessionId)
         /\ traffic'.widget.localStorage = Str(req[1].outSessionId)
         /\ req[1].outSessionId \in conversations
         /\ WidgetOnConversation =>
               req[1].outSessionId = traffic.widget.sessionId.val
    \* a send carries the sessionId the widget holds
    /\ (~traffic.widget.isLoading /\ traffic'.widget.isLoading) =>
         last'.request.sessionId = traffic.widget.sessionId
    \* once the widget holds the id of a Conversation, its sends create no
    \* Conversation and append to that one
    /\ (traffic.widget.mounted /\ WidgetOnConversation) =>
         /\ conversations' = conversations
         /\ Len(messages') > Len(messages) =>
               messages'[Len(messages')].conversationId
                   = traffic.widget.sessionId.val
         /\ traffic'.widget.sessionId = traffic.widget.sessionId

\* C30: after a successful send the widget keeps the returned sessionId,
\* in its state and in localStorage, and sends it with its next message:
\* once the server has answered a stale sessionId with the id of a new
\* Conversation, every later send of the widget is on that Conversation
\* and creates no other.
C30_WidgetKeepsSession == [][C30_Step]_vars

\* The widget was mounted with a stale sessionId, was answered with the id
\* of a new Conversation, and two later sends were appended to it.
C30_Witness ==
    /\ traffic.widget.localStorage = Str(Uuid(2))
    /\ traffic.widget.sessionId = Str(Uuid(2))
    /\ ~traffic.widget.isLoading
    /\ StaleUuid \notin conversations
    /\ StaleUuid \in DOMAIN hits["session"]
    /\ Cardinality(UserMessagesOf(Uuid(2))) = 3
    /\ conversations = {Uuid(1), Uuid(2)}

====
